---- MODULE Spec2Model ----
(***************************************************************************)
(* Store transaction manager: the transaction lifecycle handlers           *)
(* (createTransaction, updateTransaction, deleteTransaction), the catalog  *)
(* and store-profile handlers they depend on, and generateDocument, over   *)
(* the tables of server/src/db/schema.ts.                                  *)
(*                                                                         *)
(* Money.  A numeric(15,2) column holds an integer number of cents.  A     *)
(* JavaScript number computed by a handler is kept as an exact decimal     *)
(* [c, f]: c cents plus f/SubCent of a cent.  Writing a number into a      *)
(* numeric(15,2) column rounds it to the nearest cent (ties away from      *)
(* zero); reading it back (parseFloat) yields whole cents.  IEEE-754       *)
(* representation error of the doubles is not modelled: products and sums  *)
(* are exact decimals.                                                     *)
(***************************************************************************)
EXTENDS Integers, Sequences, FiniteSets, TLC

VARIABLES
  catalogItemsTable,      \* rows of catalog_items
  storeProfilesTable,     \* rows of store_profiles
  transactionsTable,      \* rows of transactions
  transactionItemsTable,  \* rows of transaction_items
  documentsTable,         \* rows of documents
  serial,                 \* next value of each table's serial id column
  last,                   \* the last handler call: operation, input, outcome
  requests                \* the handler calls suspended at an await

vars == <<catalogItemsTable, storeProfilesTable, transactionsTable,
          transactionItemsTable, documentsTable, serial, last, requests>>

(***************************************************************************)
(* Bounds of the model                                                     *)
(***************************************************************************)
MaxTx == 2        \* transaction ids handed out
MaxCatalog == 1   \* catalog item ids handed out
MaxStore == 1     \* store profile rows
MaxDocs == 1      \* document ids handed out
MaxClock == 2     \* distinct values Date.now() takes

(***************************************************************************)
(* Program constants                                                       *)
(***************************************************************************)
CentsPerUnit == 100              \* numeric(15,2): two decimals
PpnRate == 110                   \* 0.11, in thousandths
CreateRegionalTaxRate == 10      \* 0.01  (createTransaction)
CreatePph22Rate == 2             \* 0.002 (createTransaction)
UpdateRegionalTaxRate == 100     \* 0.1   (updateTransaction)
UpdatePph22Rate == 22            \* 0.022 (updateTransaction)
Pph23Rate == 20                  \* 0.02
StampDutyThreshold == 5000000    \* in currency units
StampDutyAmount == 10000         \* in currency units
PadLength == 4                   \* padStart(4, '0')
FormPpnRate == 110               \* 0.11  (TransactionForm)
FormRegionalTaxRate == 100       \* 0.10  (TransactionForm)
FormPph22Rate == 15              \* 0.015 (TransactionForm)
FormPph23Rate == 20              \* 0.02  (TransactionForm)
FormStampDutyThreshold == 5000000  \* in currency units (TransactionForm)
FormStampDutyAmount == 10000     \* in currency units (TransactionForm)

RateScale == 10 * 100            \* rates are thousandths
PercentScale == 10 * 10          \* discounts are hundredths
SubCent == RateScale * PercentScale  \* resolution below one cent

TransactionStatus == {"draft", "confirmed", "paid", "cancelled"}
DocumentType == {"sales_note", "payment_receipt", "invoice", "bast",
                 "purchase_order", "tax_invoice", "proforma_invoice"}
TaxFlags == {"ppn_enabled", "regional_tax_enabled", "pph22_enabled", "pph23_enabled"}

(***************************************************************************)
(* Exact decimals (JavaScript numbers)                                     *)
(***************************************************************************)
Dec(c, f) == [c |-> c, f |-> f]
DecOfCents(c) == Dec(c, 0)
Norm(c, f) == Dec(c + (f \div SubCent), f % SubCent)
DecAdd(a, b) == Norm(a.c + b.c, a.f + b.f)
\* a - b for a >= b
DecSub(a, b) ==
  IF a.f >= b.f THEN Dec(a.c - b.c, a.f - b.f)
  ELSE Dec(a.c - b.c - 1, a.f + SubCent - b.f)
\* a >= n for a whole number n of cents
DecGE(a, n) == a.c >= n

\* x * (num / den) for a whole number x of cents, den a divisor of SubCent
MulFrac(x, num, den) ==
  LET h == x \div den
      l == x % den
  IN Norm(h * num + ((l * num) \div den), ((l * num) % den) * (SubCent \div den))

\* a * (rate / 1000): subtotal * 0.11 and the like
MulRate(a, rate) ==
  LET whole == MulFrac(a.c, rate, RateScale)
  IN Norm(whole.c, whole.f + ((a.f * rate) \div RateScale))

\* number -> numeric(15,2): rounded to the cent, ties away from zero
ToNumeric2(a) == IF 2 * a.f >= SubCent THEN a.c + 1 ELSE a.c

\* item.quantity * item.unit_price * (1 - item.discount_percentage / 100)
LineTotal(item) ==
  MulFrac(item.quantity * item.unit_price, 100 - item.discount_percentage, PercentScale)

(***************************************************************************)
(* Table access                                                            *)
(***************************************************************************)
\* optional input fields: {} when undefined, {v} when given
Given(opt) == opt # {}
ValueOf(opt) == CHOOSE v \in opt : TRUE

\* db.select().from(table).where(eq(table.id, id))
SelectById(table, id) == {row \in table : row.id = id}
RowOf(rows) == CHOOSE row \in rows : TRUE

\* transaction_items of one transaction
ItemsOf(id) == {it \in transactionItemsTable : it.transaction_id = id}

\* transaction_items INNER JOIN catalog_items, of one transaction
JoinedItemsOf(id) ==
  {it \in ItemsOf(id) : SelectById(catalogItemsTable, it.catalog_item_id) # {}}

RECURSIVE SumLineTotals(_)
\* reduce((sum, item) => sum + parseFloat(item.line_total), 0), in cents
SumLineTotals(rows) ==
  IF rows = {} THEN 0
  ELSE LET r == CHOOSE x \in rows : TRUE
       IN r.line_total + SumLineTotals(rows \ {r})

Outcome(kind, id) == [kind |-> kind, id |-> id]
Ok == Outcome("ok", 0)
Call(op, input, result) == [op |-> op, input |-> input, result |-> result]

(***************************************************************************)
(* createTransaction                                                       *)
(***************************************************************************)
RECURSIVE SubtotalOf(_, _)
\* for (const item of input.items) subtotal += lineTotal, over items[1..n]
SubtotalOf(items, n) ==
  IF n = 0 THEN Dec(0, 0)
  ELSE DecAdd(SubtotalOf(items, n - 1), LineTotal(items[n]))

\* the validation as it would be if only input.items[0] were looked up
FirstMissing_OnlyFirstItem(items) ==
  IF SelectById(catalogItemsTable, items[1].catalog_item_id) = {} THEN 1 ELSE 0

\* index of the first item the validation loop rejects, 0 when none
FirstMissing(items) ==
  LET missing == {i \in 1..Len(items) :
                    SelectById(catalogItemsTable, items[i].catalog_item_id) = {}}
  IN IF missing = {} THEN 0
     ELSE CHOOSE i \in missing : \A j \in missing : i <= j

\* the tax computed whatever the flag
TaxAmount_IgnoresFlag(enabled, subtotal, rate) == MulRate(subtotal, rate)

TaxAmount(enabled, subtotal, rate) ==
  IF enabled THEN MulRate(subtotal, rate) ELSE Dec(0, 0)

\* the withholding taxes added instead of deducted
CreateTotalBeforeStampDuty_AddsWithholding(subtotal, ppnAmount, regionalTaxAmount, pph22Amount, pph23Amount) ==
  DecAdd(DecAdd(DecAdd(DecAdd(subtotal, ppnAmount), regionalTaxAmount),
                pph22Amount), pph23Amount)

\* subtotal + ppnAmount + regionalTaxAmount - pph22Amount - pph23Amount
CreateTotalBeforeStampDuty(subtotal, ppnAmount, regionalTaxAmount, pph22Amount, pph23Amount) ==
  DecSub(DecSub(DecAdd(DecAdd(subtotal, ppnAmount), regionalTaxAmount),
                pph22Amount), pph23Amount)

\* totalBeforeStampDuty >= 5000000
CreateStampDutyRequired(totalBeforeStampDuty) ==
  DecGE(totalBeforeStampDuty, StampDutyThreshold * CentsPerUnit)

\* stampDutyRequired ? 10000 : 0, in cents
StampDuty(required) == IF required THEN StampDutyAmount * CentsPerUnit ELSE 0

\* the computed fields of the row createTransaction inserts
CreateTotals(input) ==
  LET subtotal == SubtotalOf(input.items, Len(input.items))
      ppnAmount == TaxAmount(input.ppn_enabled, subtotal, PpnRate)
      regionalTaxAmount ==
        TaxAmount(input.regional_tax_enabled, subtotal, CreateRegionalTaxRate)
      pph22Amount == TaxAmount(input.pph22_enabled, subtotal, CreatePph22Rate)
      pph23Amount == TaxAmount(input.pph23_enabled, subtotal, Pph23Rate)
      totalBeforeStampDuty ==
        CreateTotalBeforeStampDuty(subtotal, ppnAmount, regionalTaxAmount,
                                   pph22Amount, pph23Amount)
      stampDutyRequired == CreateStampDutyRequired(totalBeforeStampDuty)
      stampDutyAmount == StampDuty(stampDutyRequired)
      totalAmount == DecAdd(totalBeforeStampDuty, DecOfCents(stampDutyAmount))
  IN [subtotal |-> ToNumeric2(subtotal),
      ppn_enabled |-> input.ppn_enabled,
      ppn_amount |-> ToNumeric2(ppnAmount),
      regional_tax_enabled |-> input.regional_tax_enabled,
      regional_tax_amount |-> ToNumeric2(regionalTaxAmount),
      pph22_enabled |-> input.pph22_enabled,
      pph22_amount |-> ToNumeric2(pph22Amount),
      pph23_enabled |-> input.pph23_enabled,
      pph23_amount |-> ToNumeric2(pph23Amount),
      stamp_duty_required |-> stampDutyRequired,
      stamp_duty_amount |-> stampDutyAmount,
      total_amount |-> ToNumeric2(totalAmount)]

\* the transaction_items row of items[i], inserted under id firstId + i - 1
ItemRow(transactionId, firstId, items, i) ==
  [id |-> firstId + i - 1,
   transaction_id |-> transactionId,
   catalog_item_id |-> items[i].catalog_item_id,
   quantity |-> items[i].quantity,
   unit_price |-> items[i].unit_price,
   discount_percentage |-> items[i].discount_percentage,
   line_total |-> ToNumeric2(LineTotal(items[i]))]

\* index of the first item whose insert violates the catalog foreign key
FirstFkViolation(items) ==
  LET bad == {i \in 1..Len(items) :
                SelectById(catalogItemsTable, items[i].catalog_item_id) = {}}
  IN IF bad = {} THEN 0
     ELSE CHOOSE i \in bad : \A j \in bad : i <= j

createTransaction(input, now) ==
  LET op(result) == Call("createTransaction", input, result)
      missing == FirstMissing(input.items)
      id == serial.transactions
      row == [id |-> id,
              transaction_number |-> now,
              customer_name |-> input.customer_name,
              status |-> "draft"] @@ CreateTotals(input)
      fk == FirstFkViolation(input.items)
      inserted == IF fk = 0 THEN Len(input.items) ELSE fk - 1
  IN IF missing # 0
     THEN \* throw new Error(`Catalog item with ID ... not found`)
          /\ last' = op(Outcome("CatalogItemNotFound",
                                input.items[missing].catalog_item_id))
          /\ UNCHANGED <<catalogItemsTable, storeProfilesTable, transactionsTable,
                         transactionItemsTable, documentsTable, serial>>
     ELSE IF \E t \in transactionsTable : t.transaction_number = now
     THEN \* transaction_number is unique: the header insert is rejected
          /\ last' = op(Outcome("UniqueViolation", 0))
          /\ UNCHANGED <<catalogItemsTable, storeProfilesTable, transactionsTable,
                         transactionItemsTable, documentsTable, serial>>
     ELSE /\ transactionsTable' = transactionsTable \cup {row}
          /\ transactionItemsTable' = transactionItemsTable \cup
               {ItemRow(id, serial.transaction_items, input.items, i) : i \in 1..inserted}
          /\ serial' = [serial EXCEPT !.transactions = @ + 1,
                                      !.transaction_items = @ + inserted]
          /\ last' = op(IF fk = 0 THEN Outcome("ok", id)
                        ELSE Outcome("ForeignKeyViolation",
                                     input.items[fk].catalog_item_id))
          /\ UNCHANGED <<catalogItemsTable, storeProfilesTable, documentsTable>>

\* the item checks without quantity: z.number().positive()
createTransactionInputSchema_AnyQuantity(input) ==
  /\ input.customer_name # ""
  /\ Len(input.items) >= 1
  /\ \A i \in 1..Len(input.items) :
       /\ input.items[i].unit_price > 0
       /\ input.items[i].discount_percentage >= 0
       /\ input.items[i].discount_percentage <= 100

\* createTransactionInputSchema.parse succeeds: customer_name min(1), items
\* min(1), quantity and unit_price positive, discount_percentage min(0) max(100)
createTransactionInputSchema(input) ==
  /\ input.customer_name # ""
  /\ Len(input.items) >= 1
  /\ \A i \in 1..Len(input.items) :
       /\ input.items[i].quantity > 0
       /\ input.items[i].unit_price > 0
       /\ input.items[i].discount_percentage >= 0
       /\ input.items[i].discount_percentage <= 100

\* publicProcedure.input(createTransactionInputSchema).mutation(...): the
\* input is parsed before the handler runs
createTransactionProcedure(input, now) ==
  IF createTransactionInputSchema(input)
  THEN createTransaction(input, now)
  ELSE /\ last' = Call("createTransaction", input, Outcome("ValidationError", 0))
       /\ UNCHANGED <<catalogItemsTable, storeProfilesTable, transactionsTable,
                      transactionItemsTable, documentsTable, serial>>

(***************************************************************************)
(* TransactionForm: the totals the client previews for the items and the   *)
(* flags of its form                                                       *)
(***************************************************************************)
\* lineTotal - discountAmount of one item of the form
FormLineTotal(item) ==
  LET lineTotal == item.quantity * item.unit_price
      discountAmount == MulFrac(lineTotal, item.discount_percentage, PercentScale)
  IN DecSub(DecOfCents(lineTotal), discountAmount)

RECURSIVE FormSubtotalOf(_, _)
\* items.reduce((total, item) => total + (lineTotal - discountAmount), 0)
FormSubtotalOf(items, n) ==
  IF n = 0 THEN Dec(0, 0)
  ELSE DecAdd(FormSubtotalOf(items, n - 1), FormLineTotal(items[n]))

calculateSubtotal(items) == FormSubtotalOf(items, Len(items))

calculateTaxes(items, formData) ==
  LET subtotal == calculateSubtotal(items)
  IN [ppn |-> TaxAmount(formData.ppn_enabled, subtotal, FormPpnRate),
      regionalTax |-> TaxAmount(formData.regional_tax_enabled, subtotal,
                                FormRegionalTaxRate),
      pph22 |-> TaxAmount(formData.pph22_enabled, subtotal, FormPph22Rate),
      pph23 |-> TaxAmount(formData.pph23_enabled, subtotal, FormPph23Rate)]

\* subtotal + taxes.ppn + taxes.regionalTax + taxes.pph22 + taxes.pph23
FormGrandTotal(items, formData) ==
  LET taxes == calculateTaxes(items, formData)
  IN DecAdd(DecAdd(DecAdd(DecAdd(calculateSubtotal(items), taxes.ppn),
                          taxes.regionalTax), taxes.pph22), taxes.pph23)

\* grandTotal >= 5000000 ? 10000 : 0, in cents
calculateStampDuty(items, formData) ==
  IF DecGE(FormGrandTotal(items, formData), FormStampDutyThreshold * CentsPerUnit)
  THEN FormStampDutyAmount * CentsPerUnit ELSE 0

calculateTotal(items, formData) ==
  DecAdd(FormGrandTotal(items, formData),
         DecOfCents(calculateStampDuty(items, formData)))

(***************************************************************************)
(* updateTransaction                                                       *)
(***************************************************************************)
\* a flag that is not supplied reset to disabled
FlagOrExisting_ResetsToDisabled(opt, existing) ==
  IF Given(opt) THEN ValueOf(opt) ELSE FALSE

\* input.flag !== undefined ? input.flag : existingTransaction.flag
FlagOrExisting(opt, existing) == IF Given(opt) THEN ValueOf(opt) ELSE existing

\* the basic field updates: a given field replaces the persisted one
BasicFields(input, existing) ==
  [existing EXCEPT
     !.customer_name = IF Given(input.customer_name)
                       THEN ValueOf(input.customer_name) ELSE @,
     !.status = IF Given(input.status) THEN ValueOf(input.status) ELSE @]

\* the recalculation runs on every update
ShouldRecalculate_Always(input) == TRUE

ShouldRecalculate(input) ==
  \/ Given(input.ppn_enabled)
  \/ Given(input.regional_tax_enabled)
  \/ Given(input.pph22_enabled)
  \/ Given(input.pph23_enabled)

\* subtotal >= 5000000
UpdateStampDutyRequired(subtotal) ==
  DecGE(subtotal, StampDutyThreshold * CentsPerUnit)

\* subtotal + ppnAmount + regionalTaxAmount - pph22Amount - pph23Amount + stampDutyAmount
UpdateTotalAmount(subtotal, ppnAmount, regionalTaxAmount, pph22Amount, pph23Amount, stampDutyAmount) ==
  DecAdd(DecSub(DecSub(DecAdd(DecAdd(subtotal, ppnAmount), regionalTaxAmount),
                       pph22Amount), pph23Amount),
         DecOfCents(stampDutyAmount))

\* the tax and calculation fields updateTransaction overwrites
UpdateTotals(input, existing) ==
  LET subtotal == DecOfCents(SumLineTotals(JoinedItemsOf(input.id)))
      ppnEnabled == FlagOrExisting(input.ppn_enabled, existing.ppn_enabled)
      regionalTaxEnabled ==
        FlagOrExisting(input.regional_tax_enabled, existing.regional_tax_enabled)
      pph22Enabled == FlagOrExisting(input.pph22_enabled, existing.pph22_enabled)
      pph23Enabled == FlagOrExisting(input.pph23_enabled, existing.pph23_enabled)
      ppnAmount == TaxAmount(ppnEnabled, subtotal, PpnRate)
      regionalTaxAmount == TaxAmount(regionalTaxEnabled, subtotal, UpdateRegionalTaxRate)
      pph22Amount == TaxAmount(pph22Enabled, subtotal, UpdatePph22Rate)
      pph23Amount == TaxAmount(pph23Enabled, subtotal, Pph23Rate)
      stampDutyRequired == UpdateStampDutyRequired(subtotal)
      stampDutyAmount == StampDuty(stampDutyRequired)
      totalAmount == UpdateTotalAmount(subtotal, ppnAmount, regionalTaxAmount,
                                       pph22Amount, pph23Amount, stampDutyAmount)
  IN [subtotal |-> ToNumeric2(subtotal),
      ppn_enabled |-> ppnEnabled,
      ppn_amount |-> ToNumeric2(ppnAmount),
      regional_tax_enabled |-> regionalTaxEnabled,
      regional_tax_amount |-> ToNumeric2(regionalTaxAmount),
      pph22_enabled |-> pph22Enabled,
      pph22_amount |-> ToNumeric2(pph22Amount),
      pph23_enabled |-> pph23Enabled,
      pph23_amount |-> ToNumeric2(pph23Amount),
      stamp_duty_required |-> stampDutyRequired,
      stamp_duty_amount |-> stampDutyAmount,
      total_amount |-> ToNumeric2(totalAmount)]

\* the row after db.update(transactionsTable).set(updatedFields)
UpdatedRow(input, existing) ==
  IF ShouldRecalculate(input)
  THEN UpdateTotals(input, existing) @@ BasicFields(input, existing)
  ELSE BasicFields(input, existing)

updateTransaction(input) ==
  LET op(result) == Call("updateTransaction", input, result)
      existingTransactions == SelectById(transactionsTable, input.id)
      existingTransaction == RowOf(existingTransactions)
  IN IF existingTransactions = {}
     THEN \* throw new Error(`Transaction with id ... not found`)
          /\ last' = op(Outcome("TransactionNotFound", input.id))
          /\ UNCHANGED <<catalogItemsTable, storeProfilesTable, transactionsTable,
                         transactionItemsTable, documentsTable, serial>>
     ELSE /\ transactionsTable' =
               (transactionsTable \ existingTransactions)
                 \cup {UpdatedRow(input, existingTransaction)}
          /\ last' = op(Outcome("ok", input.id))
          /\ UNCHANGED <<catalogItemsTable, storeProfilesTable,
                         transactionItemsTable, documentsTable, serial>>

(***************************************************************************)
(* deleteTransaction                                                       *)
(***************************************************************************)
\* a child table without the cascade
CascadeDelete_KeepsRows(table, id) == table

\* rows of a child table that survive the delete of transaction id:
\* transaction_id references transactions.id with onDelete: 'cascade'
CascadeDelete(table, id) == {row \in table : row.transaction_id # id}

\* the delete without the status check
Deletable_AnyStatus(transaction) == TRUE

\* transaction.status !== 'draft' throws
Deletable(transaction) == transaction.status = "draft"

deleteTransaction(id) ==
  LET op(result) == Call("deleteTransaction", id, result)
      existingTransaction == SelectById(transactionsTable, id)
  IN IF existingTransaction = {}
     THEN \* throw new Error('Transaction not found')
          /\ last' = op(Outcome("TransactionNotFound", id))
          /\ UNCHANGED <<catalogItemsTable, storeProfilesTable, transactionsTable,
                         transactionItemsTable, documentsTable, serial>>
     ELSE IF ~ Deletable(RowOf(existingTransaction))
     THEN \* throw new Error('Only draft transactions can be deleted')
          /\ last' = op(Outcome("OnlyDraftDeletable", id))
          /\ UNCHANGED <<catalogItemsTable, storeProfilesTable, transactionsTable,
                         transactionItemsTable, documentsTable, serial>>
     ELSE /\ transactionsTable' = transactionsTable \ existingTransaction
          /\ transactionItemsTable' = CascadeDelete(transactionItemsTable, id)
          /\ documentsTable' = CascadeDelete(documentsTable, id)
          /\ last' = op(Outcome("ok", id))
          /\ UNCHANGED <<catalogItemsTable, storeProfilesTable, serial>>

(***************************************************************************)
(* Catalog and store profile                                               *)
(***************************************************************************)
\* inserts the catalog entry; catalog_items.code is unique
createCatalogItem(input) ==
  LET op(result) == Call("createCatalogItem", input, result)
      id == serial.catalog_items
  IN IF \E c \in catalogItemsTable : c.code = input.code
     THEN /\ last' = op(Outcome("UniqueViolation", 0))
          /\ UNCHANGED <<catalogItemsTable, storeProfilesTable, transactionsTable,
                         transactionItemsTable, documentsTable, serial>>
     ELSE /\ catalogItemsTable' = catalogItemsTable \cup
               {[id |-> id, code |-> input.code, unit_price |-> input.unit_price]}
          /\ serial' = [serial EXCEPT !.catalog_items = @ + 1]
          /\ last' = op(Outcome("ok", id))
          /\ UNCHANGED <<storeProfilesTable, transactionsTable,
                         transactionItemsTable, documentsTable>>

\* the reference without its foreign key constraint
CatalogItemReferenced_Unconstrained(id) == FALSE

\* transaction_items.catalog_item_id references catalog_items.id (no action
\* on delete): a referenced catalog row cannot be deleted
CatalogItemReferenced(id) ==
  \E it \in transactionItemsTable : it.catalog_item_id = id

deleteCatalogItem(id) ==
  LET op(result) == Call("deleteCatalogItem", id, result)
      existing == SelectById(catalogItemsTable, id)
  IN IF existing # {} /\ CatalogItemReferenced(id)
     THEN /\ last' = op(Outcome("ForeignKeyViolation", id))
          /\ UNCHANGED <<catalogItemsTable, storeProfilesTable, transactionsTable,
                         transactionItemsTable, documentsTable, serial>>
     ELSE /\ catalogItemsTable' = catalogItemsTable \ existing
          /\ last' = op(Outcome(IF existing # {} THEN "ok" ELSE "false", id))
          /\ UNCHANGED <<storeProfilesTable, transactionsTable,
                         transactionItemsTable, documentsTable, serial>>

\* db.update(catalogItemsTable).set(updateData).where(eq(id)).returning()
updateCatalogItem(input) ==
  LET op(result) == Call("updateCatalogItem", input, result)
      existing == SelectById(catalogItemsTable, input.id)
      updated(c) == IF Given(input.unit_price)
                    THEN [c EXCEPT !.unit_price = ValueOf(input.unit_price)]
                    ELSE c
  IN IF existing = {}
     THEN \* throw new Error(`Catalog item with id ... not found`)
          /\ last' = op(Outcome("CatalogItemNotFound", input.id))
          /\ UNCHANGED <<catalogItemsTable, storeProfilesTable, transactionsTable,
                         transactionItemsTable, documentsTable, serial>>
     ELSE /\ catalogItemsTable' =
               (catalogItemsTable \ existing) \cup {updated(c) : c \in existing}
          /\ last' = op(Outcome("ok", input.id))
          /\ UNCHANGED <<storeProfilesTable, transactionsTable,
                         transactionItemsTable, documentsTable, serial>>

createStoreProfile(input) ==
  /\ storeProfilesTable' = storeProfilesTable \cup
       {[id |-> serial.store_profiles, name |-> input.name]}
  /\ serial' = [serial EXCEPT !.store_profiles = @ + 1]
  /\ last' = Call("createStoreProfile", input, Outcome("ok", serial.store_profiles))
  /\ UNCHANGED <<catalogItemsTable, transactionsTable, transactionItemsTable,
                 documentsTable>>

(***************************************************************************)
(* generateDocument                                                        *)
(***************************************************************************)
RECURSIVE Digits(_)
\* id.toString(): the decimal digits of a positive integer
Digits(n) == IF n < 10 THEN <<n>> ELSE Append(Digits(n \div 10), n % 10)

RECURSIVE PadStart(_, _)
\* padStart(length, '0')
PadStart(digits, length) ==
  IF Len(digits) >= length THEN digits ELSE PadStart(<<0>> \o digits, length)

\* the prefix table without its last entry
Prefix_MissingEntry(documentType) ==
  CASE documentType = "sales_note" -> "SN"
    [] documentType = "payment_receipt" -> "PR"
    [] documentType = "invoice" -> "INV"
    [] documentType = "bast" -> "BAST"
    [] documentType = "purchase_order" -> "PO"
    [] documentType = "tax_invoice" -> "TAX"
    [] OTHER -> "DOC"

\* prefixes[documentType] || 'DOC'
Prefix(documentType) ==
  CASE documentType = "sales_note" -> "SN"
    [] documentType = "payment_receipt" -> "PR"
    [] documentType = "invoice" -> "INV"
    [] documentType = "bast" -> "BAST"
    [] documentType = "purchase_order" -> "PO"
    [] documentType = "tax_invoice" -> "TAX"
    [] documentType = "proforma_invoice" -> "PI"
    [] OTHER -> "DOC"

\* `${prefix}-${currentYear}-${paddedId}`
generateDocumentNumber(documentType, id, currentYear) ==
  <<Prefix(documentType), currentYear, PadStart(Digits(id), PadLength)>>

\* documentType.replace('_', ' ').toUpperCase()
Heading(documentType) ==
  CASE documentType = "sales_note" -> "SALES NOTE"
    [] documentType = "payment_receipt" -> "PAYMENT RECEIPT"
    [] documentType = "invoice" -> "INVOICE"
    [] documentType = "bast" -> "BAST"
    [] documentType = "purchase_order" -> "PURCHASE ORDER"
    [] documentType = "tax_invoice" -> "TAX INVOICE"
    [] documentType = "proforma_invoice" -> "PROFORMA INVOICE"

\* Intl.NumberFormat('id-ID', {style: 'currency', currency: 'IDR'}).format:
\* the currency sign, the whole units and the two decimals
formatCurrency(amount) ==
  <<"Rp", amount \div CentsPerUnit, amount % CentsPerUnit>>

\* the PPh 23 row follows the PPh 22 flag
Footer_Pph23FollowsPph22(transaction) ==
  <<<<"Subtotal", formatCurrency(transaction.subtotal)>>>>
  \o (IF transaction.ppn_enabled
      THEN <<<<"PPN (11%)", formatCurrency(transaction.ppn_amount)>>>> ELSE <<>>)
  \o (IF transaction.regional_tax_enabled
      THEN <<<<"Regional Tax", formatCurrency(transaction.regional_tax_amount)>>>> ELSE <<>>)
  \o (IF transaction.pph22_enabled
      THEN <<<<"PPh 22", formatCurrency(transaction.pph22_amount)>>>> ELSE <<>>)
  \o (IF transaction.pph22_enabled
      THEN <<<<"PPh 23", formatCurrency(transaction.pph23_amount)>>>> ELSE <<>>)
  \o (IF transaction.stamp_duty_required
      THEN <<<<"Stamp Duty", formatCurrency(transaction.stamp_duty_amount)>>>> ELSE <<>>)
  \o <<<<"TOTAL AMOUNT", formatCurrency(transaction.total_amount)>>>>

\* the rows of the <tfoot>: label and amount, in document order
Footer(transaction) ==
  <<<<"Subtotal", formatCurrency(transaction.subtotal)>>>>
  \o (IF transaction.ppn_enabled
      THEN <<<<"PPN (11%)", formatCurrency(transaction.ppn_amount)>>>> ELSE <<>>)
  \o (IF transaction.regional_tax_enabled
      THEN <<<<"Regional Tax", formatCurrency(transaction.regional_tax_amount)>>>> ELSE <<>>)
  \o (IF transaction.pph22_enabled
      THEN <<<<"PPh 22", formatCurrency(transaction.pph22_amount)>>>> ELSE <<>>)
  \o (IF transaction.pph23_enabled
      THEN <<<<"PPh 23", formatCurrency(transaction.pph23_amount)>>>> ELSE <<>>)
  \o (IF transaction.stamp_duty_required
      THEN <<<<"Stamp Duty", formatCurrency(transaction.stamp_duty_amount)>>>> ELSE <<>>)
  \o <<<<"TOTAL AMOUNT", formatCurrency(transaction.total_amount)>>>>

\* the parts of the rendered page that depend on the data
generateHtmlContent(documentType, transaction, items, storeProfile, documentNumber) ==
  [heading |-> Heading(documentType),
   document_number |-> documentNumber,
   store |-> storeProfile.name,
   transaction_number |-> transaction.transaction_number,
   customer_name |-> transaction.customer_name,
   items |-> {[catalog_item_id |-> it.catalog_item_id,
               quantity |-> it.quantity,
               unit_price |-> it.unit_price,
               discount_percentage |-> it.discount_percentage,
               line_total |-> it.line_total] : it \in items},
   footer |-> Footer(transaction)]

\* input.field || null, for an optional field of the input
FieldOrNull(input, field) ==
  IF field \in DOMAIN input THEN input[field] ELSE "null"

\* input.document_date || new Date(); a date is kept as its year
DocumentDate(input, currentYear) ==
  IF "document_date" \in DOMAIN input THEN input.document_date ELSE currentYear

\* db.select().from(storeProfilesTable).limit(1): the first row
FirstStoreProfile ==
  CHOOSE p \in storeProfilesTable : \A q \in storeProfilesTable : p.id <= q.id

generateDocument(input, currentYear) ==
  LET \* the call is recorded with the year new Date().getFullYear() returned
      op(result) == Call("generateDocument",
                         [current_year |-> currentYear] @@ input, result)
      transactionResults == SelectById(transactionsTable, input.transaction_id)
      itemResults == JoinedItemsOf(input.transaction_id)
      id == serial.documents
      documentNumber == generateDocumentNumber(input.document_type, id, currentYear)
      fail(kind) ==
        /\ last' = op(Outcome(kind, input.transaction_id))
        /\ UNCHANGED <<catalogItemsTable, storeProfilesTable, transactionsTable,
                       transactionItemsTable, documentsTable, serial>>
  IN IF transactionResults = {} THEN fail("TransactionNotFound")
     ELSE IF itemResults = {} THEN fail("NoItemsFound")
     ELSE IF storeProfilesTable = {} THEN fail("StoreProfileNotFound")
     ELSE \* insert with document_number 'TEMP', then update with the number
          \* built from the new row's id and the rendered page
          /\ documentsTable' = documentsTable \cup
               {[id |-> id,
                 transaction_id |-> input.transaction_id,
                 document_type |-> input.document_type,
                 document_number |-> documentNumber,
                 document_date |-> DocumentDate(input, currentYear),
                 recipient_name |-> FieldOrNull(input, "recipient_name"),
                 custom_notes |-> FieldOrNull(input, "custom_notes"),
                 html_content |->
                   generateHtmlContent(input.document_type, RowOf(transactionResults),
                                       itemResults, FirstStoreProfile, documentNumber)]}
          /\ serial' = [serial EXCEPT !.documents = @ + 1]
          /\ last' = op(Outcome("ok", id))
          /\ UNCHANGED <<catalogItemsTable, storeProfilesTable, transactionsTable,
                         transactionItemsTable>>

(***************************************************************************)
(* Calls in flight                                                         *)
(***************************************************************************)
\* the calls that can be in flight together: one of createTransaction and
\* of deleteTransaction, two of generateDocument and of updateTransaction
DocumentProcs == {"generateDocument", "generateDocument#2"}
UpdateProcs == {"updateTransaction", "updateTransaction#2"}
Procs == {"createTransaction", "deleteTransaction"} \cup DocumentProcs \cup UpdateProcs

\* a call suspended at an await: the handler, the statement it runs next
\* and its local variables
Request(op, pc, input, now, i, id, seen) ==
  [op |-> op, pc |-> pc, input |-> input, now |-> now, i |-> i, id |-> id,
   seen |-> seen]

Idle == Request("idle", "idle", 0, 0, 0, 0, 0)

\* the call of p moves on to the statement after its next await
Suspend(p, request) ==
  /\ requests' = [requests EXCEPT ![p] = request]
  /\ UNCHANGED last

\* the call of p returns or throws
Finish(p, op, input, result) ==
  /\ requests' = [requests EXCEPT ![p] = Idle]
  /\ last' = Call(op, input, result)

(***************************************************************************)
(* createTransaction, one awaited statement at a time.  The handler opens  *)
(* no database transaction: every statement commits on its own.            *)
(***************************************************************************)
\* const transactionNumber = `TRX-${Date.now()}`, and the first select
createTransaction_begin(p, input, now) ==
  /\ requests[p].op = "idle"
  /\ Suspend(p, Request("createTransaction", "validate", input, now, 1, 0, 0))
  /\ UNCHANGED <<catalogItemsTable, storeProfilesTable, transactionsTable,
                 transactionItemsTable, documentsTable, serial>>

\* one turn of the validation loop: select the catalog item of items[i]
createTransaction_validate(p) ==
  LET r == requests[p]
      item == r.input.items[r.i]
  IN /\ r.op = "createTransaction" /\ r.pc = "validate"
     /\ IF SelectById(catalogItemsTable, item.catalog_item_id) = {}
        THEN Finish(p, r.op, r.input,
                    Outcome("CatalogItemNotFound", item.catalog_item_id))
        ELSE IF r.i < Len(r.input.items)
        THEN Suspend(p, [r EXCEPT !.i = r.i + 1])
        ELSE Suspend(p, [r EXCEPT !.pc = "insertTransaction"])
     /\ UNCHANGED <<catalogItemsTable, storeProfilesTable, transactionsTable,
                    transactionItemsTable, documentsTable, serial>>

\* db.insert(transactionsTable).values({...}).returning()
createTransaction_insertTransaction(p) ==
  LET r == requests[p]
      id == serial.transactions
      row == [id |-> id,
              transaction_number |-> r.now,
              customer_name |-> r.input.customer_name,
              status |-> "draft"] @@ CreateTotals(r.input)
  IN /\ r.op = "createTransaction" /\ r.pc = "insertTransaction"
     /\ IF \E t \in transactionsTable : t.transaction_number = r.now
        THEN /\ Finish(p, r.op, r.input, Outcome("UniqueViolation", 0))
             /\ UNCHANGED <<transactionsTable, serial>>
        ELSE /\ transactionsTable' = transactionsTable \cup {row}
             /\ serial' = [serial EXCEPT !.transactions = @ + 1]
             /\ Suspend(p, [r EXCEPT !.pc = "insertItem", !.i = 1, !.id = id])
     /\ UNCHANGED <<catalogItemsTable, storeProfilesTable, transactionItemsTable,
                    documentsTable>>

\* the line insert without the reference from catalog_item_id to the catalog
createTransaction_insertItem_NoCatalogKey(p) ==
  LET r == requests[p]
      item == r.input.items[r.i]
      firstId == serial.transaction_items - r.i + 1
  IN /\ r.op = "createTransaction" /\ r.pc = "insertItem"
     /\ IF SelectById(transactionsTable, r.id) = {}
        THEN /\ Finish(p, r.op, r.input,
                       Outcome("ForeignKeyViolation", item.catalog_item_id))
             /\ UNCHANGED <<transactionItemsTable, serial>>
        ELSE /\ transactionItemsTable' = transactionItemsTable \cup
                  {ItemRow(r.id, firstId, r.input.items, r.i)}
             /\ serial' = [serial EXCEPT !.transaction_items = @ + 1]
             /\ IF r.i < Len(r.input.items)
                THEN Suspend(p, [r EXCEPT !.i = r.i + 1])
                ELSE Finish(p, r.op, r.input, Outcome("ok", r.id))
     /\ UNCHANGED <<catalogItemsTable, storeProfilesTable, transactionsTable,
                    documentsTable>>

\* one turn of the insert loop: db.insert(transactionItemsTable) of items[i];
\* the row references the transaction and the catalog item
createTransaction_insertItem(p) ==
  LET r == requests[p]
      item == r.input.items[r.i]
      firstId == serial.transaction_items - r.i + 1
  IN /\ r.op = "createTransaction" /\ r.pc = "insertItem"
     /\ IF \/ SelectById(catalogItemsTable, item.catalog_item_id) = {}
           \/ SelectById(transactionsTable, r.id) = {}
        THEN /\ Finish(p, r.op, r.input,
                       Outcome("ForeignKeyViolation", item.catalog_item_id))
             /\ UNCHANGED <<transactionItemsTable, serial>>
        ELSE /\ transactionItemsTable' = transactionItemsTable \cup
                  {ItemRow(r.id, firstId, r.input.items, r.i)}
             /\ serial' = [serial EXCEPT !.transaction_items = @ + 1]
             /\ IF r.i < Len(r.input.items)
                THEN Suspend(p, [r EXCEPT !.i = r.i + 1])
                ELSE Finish(p, r.op, r.input, Outcome("ok", r.id))
     /\ UNCHANGED <<catalogItemsTable, storeProfilesTable, transactionsTable,
                    documentsTable>>

(***************************************************************************)
(* generateDocument, one awaited statement at a time                       *)
(***************************************************************************)
\* document_number: 'TEMP'
TempDocumentNumber == <<"TEMP", 0, <<>>>>

\* html_content: ''
EmptyHtmlContent ==
  [heading |-> "", document_number |-> <<"", 0, <<>>>>, store |-> "",
   transaction_number |-> 0, customer_name |-> "", items |-> {}, footer |-> <<>>]

generateDocument_begin(p, input) ==
  /\ requests[p].op = "idle"
  /\ Suspend(p, Request("generateDocument", "selectTransaction", input, 0, 0, 0,
                        [transaction |-> 0, items |-> {}, storeProfile |-> 0]))
  /\ UNCHANGED <<catalogItemsTable, storeProfilesTable, transactionsTable,
                 transactionItemsTable, documentsTable, serial>>

\* db.select().from(transactionsTable).where(eq(id, input.transaction_id))
generateDocument_selectTransaction(p) ==
  LET r == requests[p]
      transactionResults == SelectById(transactionsTable, r.input.transaction_id)
  IN /\ r.op = "generateDocument" /\ r.pc = "selectTransaction"
     /\ IF transactionResults = {}
        THEN Finish(p, r.op, r.input,
                    Outcome("TransactionNotFound", r.input.transaction_id))
        ELSE Suspend(p, [r EXCEPT !.pc = "selectItems",
                                  !.seen.transaction = RowOf(transactionResults)])
     /\ UNCHANGED <<catalogItemsTable, storeProfilesTable, transactionsTable,
                    transactionItemsTable, documentsTable, serial>>

\* the items are read but an empty result is not rejected
generateDocument_selectItems_Unchecked(p) ==
  LET r == requests[p]
  IN /\ r.op = "generateDocument" /\ r.pc = "selectItems"
     /\ Suspend(p, [r EXCEPT !.pc = "selectStoreProfile",
                             !.seen.items = JoinedItemsOf(r.input.transaction_id)])
     /\ UNCHANGED <<catalogItemsTable, storeProfilesTable, transactionsTable,
                    transactionItemsTable, documentsTable, serial>>

\* the transaction items joined with their catalog items
generateDocument_selectItems(p) ==
  LET r == requests[p]
      itemResults == JoinedItemsOf(r.input.transaction_id)
  IN /\ r.op = "generateDocument" /\ r.pc = "selectItems"
     /\ IF itemResults = {}
        THEN Finish(p, r.op, r.input,
                    Outcome("NoItemsFound", r.input.transaction_id))
        ELSE Suspend(p, [r EXCEPT !.pc = "selectStoreProfile",
                                  !.seen.items = itemResults])
     /\ UNCHANGED <<catalogItemsTable, storeProfilesTable, transactionsTable,
                    transactionItemsTable, documentsTable, serial>>

\* db.select().from(storeProfilesTable).limit(1)
generateDocument_selectStoreProfile(p) ==
  LET r == requests[p]
  IN /\ r.op = "generateDocument" /\ r.pc = "selectStoreProfile"
     /\ IF storeProfilesTable = {}
        THEN Finish(p, r.op, r.input,
                    Outcome("StoreProfileNotFound", r.input.transaction_id))
        ELSE Suspend(p, [r EXCEPT !.pc = "insertDocument",
                                  !.seen.storeProfile = FirstStoreProfile])
     /\ UNCHANGED <<catalogItemsTable, storeProfilesTable, transactionsTable,
                    transactionItemsTable, documentsTable, serial>>

\* db.insert(documentsTable).values({..., document_number: 'TEMP',
\* html_content: ''}).returning(); the row references the transaction
generateDocument_insertDocument(p, currentYear) ==
  LET r == requests[p]
      id == serial.documents
  IN /\ r.op = "generateDocument" /\ r.pc = "insertDocument"
     /\ IF SelectById(transactionsTable, r.input.transaction_id) = {}
        THEN /\ Finish(p, r.op, r.input,
                       Outcome("ForeignKeyViolation", r.input.transaction_id))
             /\ UNCHANGED <<documentsTable, serial>>
        ELSE /\ documentsTable' = documentsTable \cup
                  {[id |-> id,
                    transaction_id |-> r.input.transaction_id,
                    document_type |-> r.input.document_type,
                    document_number |-> TempDocumentNumber,
                    document_date |-> DocumentDate(r.input, currentYear),
                    recipient_name |-> FieldOrNull(r.input, "recipient_name"),
                    custom_notes |-> FieldOrNull(r.input, "custom_notes"),
                    html_content |-> EmptyHtmlContent]}
             /\ serial' = [serial EXCEPT !.documents = @ + 1]
             /\ Suspend(p, [r EXCEPT !.pc = "updateDocument", !.id = id])
     /\ UNCHANGED <<catalogItemsTable, storeProfilesTable, transactionsTable,
                    transactionItemsTable>>

\* the update addresses the rows of the transaction and type, not the row
\* the insert returned
generateDocument_updateDocument_ByTransaction(p, currentYear) ==
  LET r == requests[p]
      existing == {d \in documentsTable :
                     /\ d.transaction_id = r.input.transaction_id
                     /\ d.document_type = r.input.document_type}
      documentNumber == generateDocumentNumber(r.input.document_type, r.id, currentYear)
      htmlContent == generateHtmlContent(r.input.document_type, r.seen.transaction,
                                         r.seen.items, r.seen.storeProfile,
                                         documentNumber)
      called == [current_year |-> currentYear] @@ r.input
  IN /\ r.op = "generateDocument" /\ r.pc = "updateDocument"
     /\ documentsTable' = (documentsTable \ existing) \cup
          {[d EXCEPT !.document_number = documentNumber,
                     !.html_content = htmlContent] : d \in existing}
     /\ Finish(p, r.op, called, Outcome("ok", r.id))
     /\ UNCHANGED <<catalogItemsTable, storeProfilesTable, transactionsTable,
                    transactionItemsTable, serial>>

\* db.update(documentsTable).set({document_number, html_content})
\*   .where(eq(id, documentRecord.id)).returning(), then updateResult[0].id
generateDocument_updateDocument(p, currentYear) ==
  LET r == requests[p]
      existing == SelectById(documentsTable, r.id)
      documentNumber == generateDocumentNumber(r.input.document_type, r.id, currentYear)
      htmlContent == generateHtmlContent(r.input.document_type, r.seen.transaction,
                                         r.seen.items, r.seen.storeProfile,
                                         documentNumber)
      called == [current_year |-> currentYear] @@ r.input
  IN /\ r.op = "generateDocument" /\ r.pc = "updateDocument"
     /\ IF existing = {}
        THEN \* updateResult[0] is undefined: reading its id throws
             /\ Finish(p, r.op, called, Outcome("TypeError", r.id))
             /\ UNCHANGED documentsTable
        ELSE /\ documentsTable' = (documentsTable \ existing) \cup
                  {[d EXCEPT !.document_number = documentNumber,
                             !.html_content = htmlContent] : d \in existing}
             /\ Finish(p, r.op, called, Outcome("ok", r.id))
     /\ UNCHANGED <<catalogItemsTable, storeProfilesTable, transactionsTable,
                    transactionItemsTable, serial>>

(***************************************************************************)
(* updateTransaction, one awaited statement at a time                      *)
(***************************************************************************)
updateTransaction_begin(p, input) ==
  /\ requests[p].op = "idle"
  /\ Suspend(p, Request("updateTransaction", "selectTransaction", input, 0, 0, 0,
                        [existing |-> 0, totals |-> 0]))
  /\ UNCHANGED <<catalogItemsTable, storeProfilesTable, transactionsTable,
                 transactionItemsTable, documentsTable, serial>>

\* db.select().from(transactionsTable).where(eq(id, input.id))
updateTransaction_selectTransaction(p) ==
  LET r == requests[p]
      existingTransactions == SelectById(transactionsTable, r.input.id)
  IN /\ r.op = "updateTransaction" /\ r.pc = "selectTransaction"
     /\ IF existingTransactions = {}
        THEN Finish(p, r.op, r.input, Outcome("TransactionNotFound", r.input.id))
        ELSE Suspend(p, [r EXCEPT !.pc = IF ShouldRecalculate(r.input)
                                        THEN "selectItems" ELSE "update",
                                  !.seen.existing = RowOf(existingTransactions)])
     /\ UNCHANGED <<catalogItemsTable, storeProfilesTable, transactionsTable,
                    transactionItemsTable, documentsTable, serial>>

\* the select of the lines joined with their catalog items, and the
\* recalculation from them and from the flags of the row read before
updateTransaction_selectItems(p) ==
  LET r == requests[p]
  IN /\ r.op = "updateTransaction" /\ r.pc = "selectItems"
     /\ Suspend(p, [r EXCEPT !.pc = "update",
                             !.seen.totals = UpdateTotals(r.input, r.seen.existing)])
     /\ UNCHANGED <<catalogItemsTable, storeProfilesTable, transactionsTable,
                    transactionItemsTable, documentsTable, serial>>

\* the update sets the amounts and the total but, of the flags, only those
\* the input gives
updateTransaction_update_GivenFlagsOnly(p) ==
  LET r == requests[p]
      current == SelectById(transactionsTable, r.input.id)
      written(t) ==
        [f \in DOMAIN r.seen.totals |->
           IF f \in TaxFlags /\ ~ Given(r.input[f]) THEN t[f] ELSE r.seen.totals[f]]
      updated(t) == IF ShouldRecalculate(r.input)
                    THEN written(t) @@ BasicFields(r.input, t)
                    ELSE BasicFields(r.input, t)
  IN /\ r.op = "updateTransaction" /\ r.pc = "update"
     /\ IF current = {}
        THEN /\ Finish(p, r.op, r.input, Outcome("TypeError", r.input.id))
             /\ UNCHANGED transactionsTable
        ELSE /\ transactionsTable' =
                  (transactionsTable \ current) \cup {updated(t) : t \in current}
             /\ Finish(p, r.op, r.input, Outcome("ok", r.input.id))
     /\ UNCHANGED <<catalogItemsTable, storeProfilesTable, transactionItemsTable,
                    documentsTable, serial>>

\* db.update(transactionsTable).set(updatedFields).where(eq(id, input.id))
\*   .returning(): the columns of updatedFields replace those of the row as
\* it is now; then result[0].subtotal is read
updateTransaction_update(p) ==
  LET r == requests[p]
      current == SelectById(transactionsTable, r.input.id)
      updated(t) == IF ShouldRecalculate(r.input)
                    THEN r.seen.totals @@ BasicFields(r.input, t)
                    ELSE BasicFields(r.input, t)
  IN /\ r.op = "updateTransaction" /\ r.pc = "update"
     /\ IF current = {}
        THEN \* result[0] is undefined: reading its subtotal throws
             /\ Finish(p, r.op, r.input, Outcome("TypeError", r.input.id))
             /\ UNCHANGED transactionsTable
        ELSE /\ transactionsTable' =
                  (transactionsTable \ current) \cup {updated(t) : t \in current}
             /\ Finish(p, r.op, r.input, Outcome("ok", r.input.id))
     /\ UNCHANGED <<catalogItemsTable, storeProfilesTable, transactionItemsTable,
                    documentsTable, serial>>

(***************************************************************************)
(* deleteTransaction, one awaited statement at a time                      *)
(***************************************************************************)
deleteTransaction_begin(p, id) ==
  /\ requests[p].op = "idle"
  /\ Suspend(p, Request("deleteTransaction", "selectTransaction", id, 0, 0, id, 0))
  /\ UNCHANGED <<catalogItemsTable, storeProfilesTable, transactionsTable,
                 transactionItemsTable, documentsTable, serial>>

\* db.select().from(transactionsTable).where(eq(id, id)) and the two checks
deleteTransaction_selectTransaction(p) ==
  LET r == requests[p]
      existingTransaction == SelectById(transactionsTable, r.id)
  IN /\ r.op = "deleteTransaction" /\ r.pc = "selectTransaction"
     /\ IF existingTransaction = {}
        THEN Finish(p, r.op, r.id, Outcome("TransactionNotFound", r.id))
        ELSE IF ~ Deletable(RowOf(existingTransaction))
        THEN Finish(p, r.op, r.id, Outcome("OnlyDraftDeletable", r.id))
        ELSE Suspend(p, [r EXCEPT !.pc = "delete"])
     /\ UNCHANGED <<catalogItemsTable, storeProfilesTable, transactionsTable,
                    transactionItemsTable, documentsTable, serial>>

\* db.delete(transactionsTable).where(eq(id, id)); (result.rowCount ?? 0) > 0
deleteTransaction_delete(p) ==
  LET r == requests[p]
      existingTransaction == SelectById(transactionsTable, r.id)
  IN /\ r.op = "deleteTransaction" /\ r.pc = "delete"
     /\ transactionsTable' = transactionsTable \ existingTransaction
     /\ transactionItemsTable' = CascadeDelete(transactionItemsTable, r.id)
     /\ documentsTable' = CascadeDelete(documentsTable, r.id)
     /\ Finish(p, r.op, r.id,
               Outcome(IF existingTransaction # {} THEN "ok" ELSE "false", r.id))
     /\ UNCHANGED <<catalogItemsTable, storeProfilesTable, serial>>

\* db.select().from(documentsTable).where(eq(transaction_id, transactionId))
getDocumentsByTransaction(transactionId) ==
  /\ last' = Call("getDocumentsByTransaction", transactionId,
                  [kind |-> "ok", id |-> transactionId,
                   rows |-> {d \in documentsTable : d.transaction_id = transactionId}])
  /\ UNCHANGED <<catalogItemsTable, storeProfilesTable, transactionsTable,
                 transactionItemsTable, documentsTable, serial>>

(***************************************************************************)
(* Initial state: the empty database                                       *)
(***************************************************************************)
Init ==
  /\ catalogItemsTable = {}
  /\ storeProfilesTable = {}
  /\ transactionsTable = {}
  /\ transactionItemsTable = {}
  /\ documentsTable = {}
  /\ serial = [catalog_items |-> 1, store_profiles |-> 1, transactions |-> 1,
               transaction_items |-> 1, documents |-> 1]
  /\ last = Call("none", 0, Ok)
  /\ requests = [p \in Procs |-> Idle]

(***************************************************************************)
(* Inputs                                                                  *)
(***************************************************************************)
Clock == 1..MaxClock
TransactionIds == 1..MaxTx
\* catalog ids a request may name; MaxCatalog + 1 is never handed out
CatalogIds == 1..(MaxCatalog + 1)
\* a catalog id that no row ever has
MissingCatalogId == MaxCatalog + 1
CurrentYears == {2024}
Optional(S) == {{}} \cup {{v} : v \in S}

CatalogInputs == {[code |-> "TEST-001", unit_price |-> 1000 * CentsPerUnit]}
StoreProfileInputs == {[name |-> "Test Store"]}

Item(catalogItemId, quantity, unitPrice, discount) ==
  [catalog_item_id |-> catalogItemId, quantity |-> quantity,
   unit_price |-> unitPrice, discount_percentage |-> discount]

CreateInput(flags, items) ==
  [customer_name |-> "John Doe",
   ppn_enabled |-> flags.ppn_enabled,
   regional_tax_enabled |-> flags.regional_tax_enabled,
   pph22_enabled |-> flags.pph22_enabled,
   pph23_enabled |-> flags.pph23_enabled,
   items |-> items]

AllFlags == [TaxFlags -> BOOLEAN]
\* createTransactionInputSchema defaults: ppn on, the others off
DefaultFlags == [f \in TaxFlags |-> f = "ppn_enabled"]

UpdateInput(id, name, status, flags) ==
  [id |-> id, customer_name |-> name, status |-> status,
   ppn_enabled |-> flags.ppn_enabled,
   regional_tax_enabled |-> flags.regional_tax_enabled,
   pph22_enabled |-> flags.pph22_enabled,
   pph23_enabled |-> flags.pph23_enabled]

NoFlags == [f \in TaxFlags |-> {}]

(***************************************************************************)
(* Spec: the transaction lifecycle, every handler, several transactions    *)
(***************************************************************************)
LifecycleItems ==
  { <<Item(1, 1, 1000 * CentsPerUnit, 0), Item(1, 2, 2000 * CentsPerUnit, 10)>>,
    <<Item(MissingCatalogId, 2, 1000 * CentsPerUnit, 0)>>,
    <<Item(1, 1, 1000 * CentsPerUnit, 0), Item(MissingCatalogId, 2, 2000 * CentsPerUnit, 10)>>,
    <<Item(MissingCatalogId, 1, 1000 * CentsPerUnit, 0), Item(1, 2, 2000 * CentsPerUnit, 10)>> }

LifecycleCreateInputs == {CreateInput(DefaultFlags, items) : items \in LifecycleItems}

LifecycleUpdateInputs ==
  {UpdateInput(id, {}, status, NoFlags) :
     id \in TransactionIds, status \in Optional(TransactionStatus)}

GenerateDocumentInputs ==
  {[transaction_id |-> id, document_type |-> type] :
     id \in TransactionIds, type \in {"invoice", "payment_receipt"}}

CreateCatalogItem ==
  /\ serial.catalog_items <= MaxCatalog
  /\ \E input \in CatalogInputs : createCatalogItem(input)
  /\ UNCHANGED requests

DeleteCatalogItem ==
  /\ \E id \in CatalogIds : deleteCatalogItem(id)
  /\ UNCHANGED requests

CreateStoreProfile ==
  /\ serial.store_profiles <= MaxStore
  /\ \E input \in StoreProfileInputs : createStoreProfile(input)
  /\ UNCHANGED requests

CreateTransaction ==
  /\ serial.transactions <= MaxTx
  /\ \E input \in LifecycleCreateInputs, now \in Clock :
       \* Date.now() does not run backwards: no stored number is later than now
       /\ \A t \in transactionsTable : t.transaction_number <= now
       /\ createTransaction(input, now)
  /\ UNCHANGED requests

UpdateTransaction ==
  /\ \E input \in LifecycleUpdateInputs : updateTransaction(input)
  /\ UNCHANGED requests

DeleteTransaction ==
  /\ \E id \in TransactionIds : deleteTransaction(id)
  /\ UNCHANGED requests

GenerateDocument ==
  /\ serial.documents <= MaxDocs
  /\ \E input \in GenerateDocumentInputs, currentYear \in CurrentYears :
       generateDocument(input, currentYear)
  /\ UNCHANGED requests

Next ==
  \/ CreateCatalogItem
  \/ DeleteCatalogItem
  \/ CreateStoreProfile
  \/ CreateTransaction
  \/ UpdateTransaction
  \/ DeleteTransaction
  \/ GenerateDocument

Spec == Init /\ [][Next]_vars

(***************************************************************************)
(* SpecTax: the tax engine on one live transaction at a time, over every   *)
(* combination of the four tax flags and subtotals on both sides of the    *)
(* cent and of the stamp duty threshold                                    *)
(***************************************************************************)
TaxItems ==
  { <<Item(1, 1, 130, 0)>>,                          \* 1.30
    <<Item(1, 1, 37, 15)>>,                          \* 0.3145
    <<Item(1, 2, 1000 * CentsPerUnit, 0)>>,          \* 2,000
    <<Item(1, 1, 4600000 * CentsPerUnit, 0)>>,       \* 4,600,000
    <<Item(1, 1, 5000000 * CentsPerUnit, 0)>>,       \* 5,000,000
    <<Item(1, 1, 1000 * CentsPerUnit, 100)>>,        \* 0: discounted to nothing
    <<Item(1, 1, 37, 15), Item(1, 1, 37, 15)>>,      \* 0.3145 + 0.3145
    <<Item(1, 1, 1000 * CentsPerUnit, 0),
      Item(1, 2, 2000 * CentsPerUnit, 10)>> }        \* 4,600

TaxCreateInputs == {CreateInput(flags, items) : flags \in AllFlags, items \in TaxItems}

\* flag patches: no flag given, one flag given, or all four given
TaxPatches ==
  {patch \in [TaxFlags -> Optional(BOOLEAN)] :
     Cardinality({f \in TaxFlags : Given(patch[f])}) \in {0, 1, Cardinality(TaxFlags)}}

TaxUpdateInputs ==
  {UpdateInput(id, {}, {}, flags) : id \in TransactionIds, flags \in TaxPatches}

TaxCreateTransaction ==
  /\ serial.transactions <= MaxTx
  /\ transactionsTable = {}
  /\ \E input \in TaxCreateInputs : createTransaction(input, serial.transactions)
  /\ UNCHANGED requests

TaxUpdateTransaction ==
  /\ \E input \in TaxUpdateInputs : updateTransaction(input)
  /\ UNCHANGED requests

NextTax ==
  \/ CreateCatalogItem
  \/ TaxCreateTransaction
  \/ TaxUpdateTransaction
  \/ DeleteTransaction

SpecTax == Init /\ [][NextTax]_vars

(***************************************************************************)
(* SpecCreate: createTransaction behind its input schema, with well-formed *)
(* and malformed inputs, over a catalog whose prices change                *)
(***************************************************************************)
CatalogPrices == {1000 * CentsPerUnit, 1500 * CentsPerUnit}

UpdateCatalogItemInputs ==
  {[id |-> id, unit_price |-> price] :
     id \in CatalogIds, price \in Optional(CatalogPrices)}

\* item lists the schema accepts, priced at, above and below the catalog price
WellFormedItems ==
  { <<Item(1, 1, 1000 * CentsPerUnit, 0)>>,
    <<Item(1, 1, 2000 * CentsPerUnit, 0)>>,
    <<Item(1, 2, 1000 * CentsPerUnit, 100), Item(1, 1, 1, 0)>> }

\* item lists the schema rejects
MalformedItems ==
  { <<>>,
    <<Item(1, 0, 1000 * CentsPerUnit, 0)>>,
    <<Item(1, -1, 1000 * CentsPerUnit, 0)>>,
    <<Item(1, 1, 0, 0)>>,
    <<Item(1, 1, 1000 * CentsPerUnit, 101)>>,
    <<Item(1, 1, 1000 * CentsPerUnit, -1)>>,
    <<Item(1, 1, 1000 * CentsPerUnit, 0), Item(1, 0, 1000 * CentsPerUnit, 0)>> }

CheckedCreateInputs ==
  {CreateInput(DefaultFlags, items) : items \in WellFormedItems \cup MalformedItems}

UpdateCatalogItem ==
  /\ \E input \in UpdateCatalogItemInputs : updateCatalogItem(input)
  /\ UNCHANGED requests

CheckedCreateTransaction ==
  /\ serial.transactions <= MaxTx
  /\ \E input \in CheckedCreateInputs, now \in Clock :
       /\ \A t \in transactionsTable : t.transaction_number <= now
       /\ createTransactionProcedure(input, now)
  /\ UNCHANGED requests

NextCreate ==
  \/ CreateCatalogItem
  \/ UpdateCatalogItem
  \/ DeleteCatalogItem
  \/ CheckedCreateTransaction
  \/ DeleteTransaction

SpecCreate == Init /\ [][NextCreate]_vars

(***************************************************************************)
(* SpecDocs: generateDocument for every document type, in two years        *)
(***************************************************************************)
DocumentYears == {2024, 2025}

AnyDocumentInputs ==
  {[transaction_id |-> id, document_type |-> type] :
     id \in TransactionIds, type \in DocumentType}

DocsCreateTransaction ==
  /\ serial.transactions <= MaxTx
  /\ createTransaction(CreateInput(DefaultFlags, <<Item(1, 2, 1000 * CentsPerUnit, 0)>>),
                       serial.transactions)
  /\ UNCHANGED requests

GenerateAnyDocument ==
  /\ serial.documents <= MaxDocs
  /\ \E input \in AnyDocumentInputs, currentYear \in DocumentYears :
       generateDocument(input, currentYear)
  /\ UNCHANGED requests

NextDocs ==
  \/ CreateCatalogItem
  \/ CreateStoreProfile
  \/ DocsCreateTransaction
  \/ GenerateAnyDocument

SpecDocs == Init /\ [][NextDocs]_vars

(***************************************************************************)
(* SpecSteps: calls of createTransaction and generateDocument interleaved  *)
(* at their awaits with each other and with the single-statement handlers  *)
(***************************************************************************)
StepCreateInputs ==
  {CreateInput(DefaultFlags,
               <<Item(1, 1, 1000 * CentsPerUnit, 0), Item(1, 2, 2000 * CentsPerUnit, 10)>>)}

StepDocumentInputs ==
  {[transaction_id |-> id, document_type |-> "invoice"] : id \in TransactionIds}

\* Date.now() is read as the number of transaction ids handed out so far
StartCreateTransaction ==
  /\ serial.transactions <= MaxTx
  /\ \E input \in StepCreateInputs :
       createTransaction_begin("createTransaction", input, serial.transactions)

ValidateCatalogItem == \E p \in Procs : createTransaction_validate(p)

InsertTransaction == \E p \in Procs : createTransaction_insertTransaction(p)

InsertItem == \E p \in Procs : createTransaction_insertItem(p)

StartGenerateDocument ==
  /\ serial.documents <= MaxDocs
  /\ \E input \in StepDocumentInputs :
       generateDocument_begin("generateDocument", input)

SelectTransaction == \E p \in Procs : generateDocument_selectTransaction(p)

SelectItems == \E p \in Procs : generateDocument_selectItems(p)

SelectStoreProfile == \E p \in Procs : generateDocument_selectStoreProfile(p)

InsertDocument ==
  \E p \in Procs, currentYear \in CurrentYears :
    generateDocument_insertDocument(p, currentYear)

UpdateDocument ==
  \E p \in Procs, currentYear \in CurrentYears :
    generateDocument_updateDocument(p, currentYear)

GetDocumentsByTransaction ==
  /\ \E id \in TransactionIds : getDocumentsByTransaction(id)
  /\ UNCHANGED requests

NextSteps ==
  \/ CreateCatalogItem
  \/ DeleteCatalogItem
  \/ CreateStoreProfile
  \/ DeleteTransaction
  \/ StartCreateTransaction
  \/ ValidateCatalogItem
  \/ InsertTransaction
  \/ InsertItem
  \/ StartGenerateDocument
  \/ SelectTransaction
  \/ SelectItems
  \/ SelectStoreProfile
  \/ InsertDocument
  \/ UpdateDocument
  \/ GetDocumentsByTransaction

SpecSteps == Init /\ [][NextSteps]_vars

(***************************************************************************)
(* SpecCopies: two calls of generateDocument in flight on transactions     *)
(* that updateTransaction changes meanwhile                                *)
(***************************************************************************)
CopiesDocumentInputs ==
  {[transaction_id |-> id, document_type |-> "invoice"] : id \in TransactionIds}
    \cup {[transaction_id |-> id, document_type |-> "invoice",
           recipient_name |-> "Jane Smith", custom_notes |-> "Second copy"] :
             id \in TransactionIds}

CopiesUpdateInputs ==
  {UpdateInput(id, {}, {"confirmed"}, NoFlags) : id \in TransactionIds}
    \cup {UpdateInput(id, {}, {}, [NoFlags EXCEPT !.ppn_enabled = {FALSE}]) :
             id \in TransactionIds}

\* one transaction at a time
CopiesCreateTransaction ==
  /\ serial.transactions <= MaxTx
  /\ transactionsTable = {}
  /\ createTransaction(CreateInput([DefaultFlags EXCEPT !.regional_tax_enabled = TRUE],
                                   <<Item(1, 2, 1000 * CentsPerUnit, 0)>>),
                       serial.transactions)
  /\ UNCHANGED requests

CopiesUpdateTransaction ==
  /\ \E input \in CopiesUpdateInputs : updateTransaction(input)
  /\ UNCHANGED requests

StartGenerateCopy ==
  /\ serial.documents <= MaxDocs
  /\ \E p \in DocumentProcs, input \in CopiesDocumentInputs :
       generateDocument_begin(p, input)

NextCopies ==
  \/ CreateCatalogItem
  \/ CreateStoreProfile
  \/ CopiesCreateTransaction
  \/ CopiesUpdateTransaction
  \/ StartGenerateCopy
  \/ SelectTransaction
  \/ SelectItems
  \/ SelectStoreProfile
  \/ InsertDocument
  \/ UpdateDocument

SpecCopies == Init /\ [][NextCopies]_vars

(***************************************************************************)
(* SpecFooter: documents of one transaction at a time, created and updated *)
(* with every combination of the tax flags, below and above the stamp duty *)
(* threshold                                                               *)
(***************************************************************************)
FooterItems ==
  { <<Item(1, 2, 1000 * CentsPerUnit, 0)>>,
    <<Item(1, 1, 5000000 * CentsPerUnit, 0)>> }

FooterCreateInputs ==
  {CreateInput(flags, items) : flags \in AllFlags, items \in FooterItems}

FooterCreateTransaction ==
  /\ serial.transactions <= MaxTx
  /\ transactionsTable = {}
  /\ \E input \in FooterCreateInputs : createTransaction(input, serial.transactions)
  /\ UNCHANGED requests

\* the PPh 23 flag is switched after the creation
FooterUpdateInputs ==
  {UpdateInput(id, {}, {}, [NoFlags EXCEPT !.pph23_enabled = {enabled}]) :
     id \in TransactionIds, enabled \in BOOLEAN}

FooterUpdateTransaction ==
  /\ \E input \in FooterUpdateInputs : updateTransaction(input)
  /\ UNCHANGED requests

FooterGenerateDocument ==
  /\ serial.documents <= MaxDocs
  /\ \E input \in StepDocumentInputs, currentYear \in CurrentYears :
       generateDocument(input, currentYear)
  /\ UNCHANGED requests

NextFooter ==
  \/ CreateCatalogItem
  \/ CreateStoreProfile
  \/ FooterCreateTransaction
  \/ FooterUpdateTransaction
  \/ FooterGenerateDocument

SpecFooter == Init /\ [][NextFooter]_vars

(***************************************************************************)
(* SpecRaces: two calls of updateTransaction on the same transaction,       *)
(* interleaved at their awaits                                             *)
(***************************************************************************)
\* one update confirms the transaction and enables the regional tax, the
\* other enables PPh 23
RacesUpdateInputs ==
  {UpdateInput(id, {}, {"confirmed"}, [NoFlags EXCEPT !.regional_tax_enabled = {TRUE}]) :
     id \in TransactionIds}
    \cup {UpdateInput(id, {}, {}, [NoFlags EXCEPT !.pph23_enabled = {TRUE}]) :
             id \in TransactionIds}

RacesCreateTransaction ==
  /\ serial.transactions <= MaxTx
  /\ transactionsTable = {}
  /\ createTransaction(CreateInput(DefaultFlags, <<Item(1, 2, 1000 * CentsPerUnit, 0)>>),
                       serial.transactions)
  /\ UNCHANGED requests

\* the second call starts while the first is in flight
StartUpdateTransaction ==
  \E p \in UpdateProcs, input \in RacesUpdateInputs :
    /\ p = "updateTransaction" \/ requests["updateTransaction"].op # "idle"
    /\ updateTransaction_begin(p, input)

UpdateSelectTransaction == \E p \in Procs : updateTransaction_selectTransaction(p)

UpdateSelectItems == \E p \in Procs : updateTransaction_selectItems(p)

UpdateRow == \E p \in Procs : updateTransaction_update(p)

StartDeleteTransaction ==
  \E id \in TransactionIds : deleteTransaction_begin("deleteTransaction", id)

DeleteSelectTransaction == \E p \in Procs : deleteTransaction_selectTransaction(p)

DeleteRow == \E p \in Procs : deleteTransaction_delete(p)

NextRaces ==
  \/ CreateCatalogItem
  \/ RacesCreateTransaction
  \/ StartUpdateTransaction
  \/ UpdateSelectTransaction
  \/ UpdateSelectItems
  \/ UpdateRow

SpecRaces == Init /\ [][NextRaces]_vars

(***************************************************************************)
(* SpecDelete: a call of deleteTransaction and a call of updateTransaction *)
(* on the same transaction, interleaved at their awaits                    *)
(***************************************************************************)
StartOneUpdateTransaction ==
  \E input \in RacesUpdateInputs : updateTransaction_begin("updateTransaction", input)

NextDelete ==
  \/ CreateCatalogItem
  \/ RacesCreateTransaction
  \/ StartOneUpdateTransaction
  \/ UpdateSelectTransaction
  \/ UpdateSelectItems
  \/ UpdateRow
  \/ StartDeleteTransaction
  \/ DeleteSelectTransaction
  \/ DeleteRow

SpecDelete == Init /\ [][NextDelete]_vars

(***************************************************************************)
(* Properties                                                              *)
(***************************************************************************)
\* subtotal + ppn + regional tax - pph22 - pph23 + stamp duty, of a row
SignedSum(t) ==
  t.subtotal + t.ppn_amount + t.regional_tax_amount
    - t.pph22_amount - t.pph23_amount + t.stamp_duty_amount

Abs(n) == IF n < 0 THEN -n ELSE n

\* the row with the id of t after the step, as a set
After(t) == SelectById(transactionsTable', t.id)

\* the step is a call of op that returned normally
Returned(op) == last'.op = op /\ last'.result.kind = "ok"

\* C1 as claimed: every persisted transaction has total_amount = subtotal +
\* ppn_amount + regional_tax_amount + pph22_amount + pph23_amount +
\* stamp_duty_amount, all six components added.
C1_TotalAddsAllComponents ==
  \A t \in transactionsTable :
    t.total_amount = t.subtotal + t.ppn_amount + t.regional_tax_amount
                       + t.pph22_amount + t.pph23_amount + t.stamp_duty_amount

\* C1 as amended: every persisted transaction has total_amount equal to
\* subtotal + ppn_amount + regional_tax_amount - pph22_amount - pph23_amount +
\* stamp_duty_amount (the withholding taxes deducted) to within 0.02, the
\* rounding of the persisted fields to the cent.
C1_TotalDeductsWithholding ==
  \A t \in transactionsTable : Abs(t.total_amount - SignedSum(t)) <= 2

\* C1 witness: a fresh transaction with both withholding taxes charged
C1_Witness ==
  /\ last.op = "createTransaction"
  /\ \E t \in transactionsTable :
       /\ t.pph22_amount > 0 /\ t.pph23_amount > 0
       /\ t.total_amount < t.subtotal + t.ppn_amount + t.regional_tax_amount

\* C2: every transaction row written by createTransaction or by a
\* recalculating updateTransaction has total_amount exactly equal to
\* subtotal + ppn_amount + regional_tax_amount - pph22_amount - pph23_amount +
\* stamp_duty_amount, recomputed from the persisted fields.
C2_TotalReconstructible ==
  \A t \in transactionsTable : t.total_amount = SignedSum(t)

\* C3: an updateTransaction call that re-supplies the four flags a
\* transaction already has leaves every tax amount and total_amount unchanged:
\* create and update compute each tax with the same rate.
C3_SameFlagsSameAmounts ==
  [][\A t \in transactionsTable :
       ( /\ Returned("updateTransaction")
         /\ last'.input.id = t.id
         /\ last'.input.ppn_enabled = {t.ppn_enabled}
         /\ last'.input.regional_tax_enabled = {t.regional_tax_enabled}
         /\ last'.input.pph22_enabled = {t.pph22_enabled}
         /\ last'.input.pph23_enabled = {t.pph23_enabled} )
       => \E u \in After(t) :
            /\ u.ppn_amount = t.ppn_amount
            /\ u.regional_tax_amount = t.regional_tax_amount
            /\ u.pph22_amount = t.pph22_amount
            /\ u.pph23_amount = t.pph23_amount
            /\ u.total_amount = t.total_amount]_vars

\* C4: for every persisted transaction, stamp_duty_required is true exactly
\* when subtotal plus the enabled additive taxes less the enabled withholding
\* taxes is at least 5,000,000, and stamp_duty_amount is 10,000 when required
\* and 0 otherwise.
C4_StampDutyIffThreshold ==
  \A t \in transactionsTable :
    /\ t.stamp_duty_required <=>
         (t.subtotal + t.ppn_amount + t.regional_tax_amount
            - t.pph22_amount - t.pph23_amount >= StampDutyThreshold * CentsPerUnit)
    /\ t.stamp_duty_amount =
         IF t.stamp_duty_required THEN StampDutyAmount * CentsPerUnit ELSE 0

C6_DisablePpnLowersTotalByPpn ==
  [][\A t \in transactionsTable :
       ( /\ Returned("updateTransaction")
         /\ last'.input = UpdateInput(t.id, {}, {},
                                      [NoFlags EXCEPT !["ppn_enabled"] = {FALSE}])
         /\ t.ppn_enabled )
       => \E u \in After(t) :
            /\ u.ppn_amount = 0
            /\ u.total_amount = t.total_amount - t.ppn_amount]_vars

\* C7: the status of a transaction only ever changes along draft -> confirmed,
\* confirmed -> paid, and draft|confirmed|paid -> cancelled.
C7_StatusFollowsLifecycle ==
  [][\A t \in transactionsTable : \A u \in After(t) :
       u.status # t.status =>
         <<t.status, u.status>> \in
           {<<"draft", "confirmed">>, <<"confirmed", "paid">>,
            <<"draft", "cancelled">>, <<"confirmed", "cancelled">>,
            <<"paid", "cancelled">>}]_vars

\* C8: deleteTransaction removes a transaction only when its persisted status
\* is draft; on a confirmed, paid or cancelled transaction it fails and leaves
\* the transaction row and its line rows unchanged; on an id that does not
\* exist it fails with not-found and changes nothing.
C8_DeleteOnlyDraft ==
  [][/\ \A t \in transactionsTable :
          After(t) = {} => (last'.op = "deleteTransaction" /\ t.status = "draft")
     /\ (last'.op = "deleteTransaction") =>
          LET existing == SelectById(transactionsTable, last'.input)
          IN IF existing = {}
             THEN /\ last'.result.kind = "TransactionNotFound"
                  /\ UNCHANGED <<transactionsTable, transactionItemsTable,
                                 documentsTable, catalogItemsTable>>
             ELSE IF \E t \in existing : t.status # "draft"
             THEN /\ last'.result.kind = "OnlyDraftDeletable"
                  /\ UNCHANGED <<transactionsTable, transactionItemsTable,
                                 documentsTable, catalogItemsTable>>
             ELSE /\ last'.result.kind = "ok"
                  /\ transactionsTable' = transactionsTable \ existing]_vars

\* C8 witness: a delete of a cancelled transaction with line rows was refused
C8_Witness ==
  /\ last.op = "deleteTransaction"
  /\ last.result.kind = "OnlyDraftDeletable"
  /\ \E t \in transactionsTable :
       /\ t.id = last.input
       /\ t.status = "cancelled"
       /\ \E it \in transactionItemsTable : it.transaction_id = t.id

\* C9: every transaction line row and every document row belongs to an
\* existing transaction, and after a successful deleteTransaction(id) no line
\* row and no document row with transaction_id = id remains.
C9_NoOrphanRows ==
  /\ \A it \in transactionItemsTable :
       \E t \in transactionsTable : t.id = it.transaction_id
  /\ \A d \in documentsTable :
       \E t \in transactionsTable : t.id = d.transaction_id
  /\ (last.op = "deleteTransaction" /\ last.result.kind = "ok") =>
       /\ \A it \in transactionItemsTable : it.transaction_id # last.input
       /\ \A d \in documentsTable : d.transaction_id # last.input

\* C9 witness: a delete succeeded after line rows and a document had been
\* written, the document is gone, and another transaction keeps its lines
C9_Witness ==
  /\ last.op = "deleteTransaction"
  /\ last.result.kind = "ok"
  /\ serial.documents > 1
  /\ documentsTable = {}
  /\ transactionItemsTable # {}

\* catalog ids named by the items that have no catalog row
MissingCatalogIds(items) ==
  {items[i].catalog_item_id : i \in 1..Len(items)}
    \ {c.id : c \in catalogItemsTable}

\* C10: createTransaction whose input names a catalog item id that does not
\* exist fails with a not-found error naming a missing id and leaves the
\* transaction rows and the line rows as they were, wherever the missing id
\* stands in the item list.
C10_MissingCatalogItemPersistsNothing ==
  [][(last'.op = "createTransaction"
        /\ MissingCatalogIds(last'.input.items) # {})
     => /\ last'.result.kind = "CatalogItemNotFound"
        /\ last'.result.id \in MissingCatalogIds(last'.input.items)
        /\ UNCHANGED <<transactionsTable, transactionItemsTable>>]_vars

\* C10 witness: a create was refused for an item list whose first item
\* exists in the catalog and whose second item does not
C10_Witness ==
  /\ last.op = "createTransaction"
  /\ last.result.kind = "CatalogItemNotFound"
  /\ Len(last.input.items) = 2
  /\ SelectById(catalogItemsTable, last.input.items[1].catalog_item_id) # {}
  /\ last.result.id = last.input.items[2].catalog_item_id

\* C13: no createTransaction call fails because the transaction number it
\* generated is the number of a transaction already persisted.
C13_NoNumberCollision ==
  [][last'.op = "createTransaction" => last'.result.kind # "UniqueViolation"]_vars

\* a flag the patch does not give keeps its value, and its amount follows it:
\* 0 when disabled, charged when enabled (every update rate charges at least
\* one cent on a subtotal of one currency unit)
KeptFlag(opt, before, after, amount, subtotal) ==
  ~ Given(opt) =>
    /\ after = before
    /\ ~ after => amount = 0
    /\ (after /\ subtotal >= CentsPerUnit) => amount > 0

\* C14: an updateTransaction call that supplies only some of the four tax
\* flags leaves every flag it does not supply at its persisted value, and the
\* amount of such a tax is recomputed from the kept flag, not reset to 0.
C14_UnspecifiedFlagsPreserved ==
  [][\A t \in transactionsTable :
       ( /\ Returned("updateTransaction")
         /\ last'.input.id = t.id
         /\ ShouldRecalculate(last'.input) )
       => \E u \in After(t) :
            /\ KeptFlag(last'.input.ppn_enabled, t.ppn_enabled, u.ppn_enabled,
                        u.ppn_amount, u.subtotal)
            /\ KeptFlag(last'.input.regional_tax_enabled, t.regional_tax_enabled,
                        u.regional_tax_enabled, u.regional_tax_amount, u.subtotal)
            /\ KeptFlag(last'.input.pph22_enabled, t.pph22_enabled, u.pph22_enabled,
                        u.pph22_amount, u.subtotal)
            /\ KeptFlag(last'.input.pph23_enabled, t.pph23_enabled, u.pph23_enabled,
                        u.pph23_amount, u.subtotal)]_vars

\* C14 witness: an update that gave only regional_tax_enabled left PPN
\* enabled and charged, and pph22 disabled
C14_Witness ==
  /\ last.op = "updateTransaction"
  /\ last.result.kind = "ok"
  /\ last.input.regional_tax_enabled = {TRUE}
  /\ last.input.ppn_enabled = {}
  /\ last.input.pph22_enabled = {}
  /\ last.input.pph23_enabled = {}
  /\ \E t \in transactionsTable :
       /\ t.id = last.input.id
       /\ t.ppn_enabled /\ t.ppn_amount > 0
       /\ ~ t.pph22_enabled /\ t.pph22_amount = 0
       /\ t.regional_tax_amount > 0

\* C15: every persisted transaction line has line_total = quantity *
\* unit_price * (1 - discount_percentage / 100).
C15_LineTotalIsProduct ==
  \A it \in transactionItemsTable :
    LET gross == it.quantity * it.unit_price
        kept == PercentScale - it.discount_percentage
        h == gross \div PercentScale
        l == gross % PercentScale
    IN /\ (l * kept) % PercentScale = 0
       /\ it.line_total = (h * kept) + ((l * kept) \div PercentScale)

\* C16: the subtotal of every persisted transaction is the sum of the
\* line_total values of its persisted line rows.
C16_SubtotalIsSumOfLines ==
  \A t \in transactionsTable : t.subtotal = SumLineTotals(ItemsOf(t.id))

\* C17: the unit_price createTransaction stores on a line is the unit price
\* the referenced catalog entry has at that moment, and updateCatalogItem
\* leaves the lines as they are.
C17_LinePriceCopiedFromCatalog ==
  [][/\ Returned("createTransaction") =>
          \A it \in transactionItemsTable' \ transactionItemsTable :
            \E c \in catalogItemsTable :
              c.id = it.catalog_item_id /\ it.unit_price = c.unit_price
     /\ last'.op = "updateCatalogItem" => UNCHANGED transactionItemsTable]_vars

\* the input breaks a rule of the claim: no item, a quantity or unit price
\* that is not positive, or a discount outside 0..100
Malformed(input) ==
  \/ Len(input.items) = 0
  \/ \E i \in 1..Len(input.items) :
       \/ input.items[i].quantity <= 0
       \/ input.items[i].unit_price <= 0
       \/ input.items[i].discount_percentage < 0
       \/ input.items[i].discount_percentage > 100

\* C18: createTransaction with an empty item list, or with a line whose
\* quantity or unit_price is not positive or whose discount_percentage is
\* outside 0..100, fails with a validation error and writes no transaction
\* row and no line row.
C18_MalformedInputRejected ==
  [][(last'.op = "createTransaction" /\ Malformed(last'.input))
     => /\ last'.result.kind = "ValidationError"
        /\ UNCHANGED <<transactionsTable, transactionItemsTable, serial>>]_vars

\* C18 witness: a create whose second line has quantity 0 was refused while
\* the catalog entry it names exists
C18_Witness ==
  /\ last.op = "createTransaction"
  /\ last.result.kind = "ValidationError"
  /\ Len(last.input.items) = 2
  /\ last.input.items[2].quantity = 0
  /\ SelectById(catalogItemsTable, last.input.items[2].catalog_item_id) # {}

\* the prefix of each document type
DocumentPrefix ==
  [sales_note |-> "SN", payment_receipt |-> "PR", invoice |-> "INV",
   bast |-> "BAST", purchase_order |-> "PO", tax_invoice |-> "TAX",
   proforma_invoice |-> "PI"]

RECURSIVE DigitsValue(_)
\* the number a sequence of decimal digits writes
DigitsValue(digits) ==
  IF digits = <<>> THEN 0
  ELSE 10 * DigitsValue(SubSeq(digits, 1, Len(digits) - 1)) + digits[Len(digits)]

\* C20: the document a generateDocument call returns has document_number
\* PREFIX-YEAR-ID: PREFIX the prefix of its document_type, YEAR the current
\* year of the call, ID the row's own id in four digits, zeros first.
C20_DocumentNumberFormat ==
  [][Returned("generateDocument") =>
       \E d \in documentsTable' \ documentsTable :
         /\ d.id = last'.result.id
         /\ d.document_type = last'.input.document_type
         /\ d.document_number[1] = DocumentPrefix[d.document_type]
         /\ d.document_number[2] = last'.input.current_year
         /\ Len(d.document_number[3]) = 4
         /\ DigitsValue(d.document_number[3]) = d.id]_vars

\* C20 witness: a proforma invoice was generated in 2025 for transaction 2
C20_Witness ==
  /\ last.op = "generateDocument"
  /\ last.result.kind = "ok"
  /\ last.input.current_year = 2025
  /\ \E d \in documentsTable :
       /\ d.id = last.result.id
       /\ d.document_type = "proforma_invoice"
       /\ d.transaction_id = 2
       /\ d.document_number = <<"PI", 2025, <<0, 0, 0, d.id>>>>

\* C11: no visible state holds the transaction row of a createTransaction
\* call that still has line rows to insert, and when a line insert fails
\* after the header insert, neither the transaction row nor a line row of
\* that call remains.
C11_CreateIsAtomic ==
  [][LET r == requests["createTransaction"]
         after == requests'["createTransaction"]
     IN /\ (after.op = "createTransaction" /\ after.pc = "insertItem")
             => SelectById(transactionsTable', after.id) = {}
        /\ ( /\ r.op = "createTransaction" /\ r.pc = "insertItem"
             /\ after.op = "idle"
             /\ last'.result.kind # "ok" )
             => /\ SelectById(transactionsTable', r.id) = {}
                /\ \A it \in transactionItemsTable' : it.transaction_id # r.id]_vars

\* the row still carries the placeholder number or the empty page
Placeholder(d) ==
  \/ d.document_number = TempDocumentNumber
  \/ d.html_content = EmptyHtmlContent

\* C12: no document row that is stored, or that getDocumentsByTransaction
\* returns, carries the placeholder number 'TEMP' or an empty html_content,
\* and a generateDocument call that fails after its insert leaves no
\* document row behind.
C12_GenerateIsAtomic ==
  [][LET r == requests["generateDocument"]
         after == requests'["generateDocument"]
     IN /\ \A d \in documentsTable' : ~ Placeholder(d)
        /\ last'.op = "getDocumentsByTransaction"
             => \A d \in last'.result.rows : ~ Placeholder(d)
        /\ ( /\ r.op = "generateDocument" /\ r.pc = "updateDocument"
             /\ after.op = "idle"
             /\ last'.result.kind # "ok" )
             => SelectById(documentsTable', r.id) = {}]_vars

\* C19: a generateDocument call checks, in this order, that the transaction
\* exists (else not-found), that it has lines (else 'no items found') and that
\* a store profile exists (else 'store profile not found'); a call that fails
\* a check changes no row, and a document row is written only by a call that
\* passed all three.
C19_GenerateDocumentErrorOrder ==
  [][LET r == requests["generateDocument"]
         after == requests'["generateDocument"]
         id == r.input.transaction_id
         fails(kind) ==
           /\ after.op = "idle"
           /\ last'.op = "generateDocument"
           /\ last'.result.kind = kind
           /\ UNCHANGED <<catalogItemsTable, storeProfilesTable, transactionsTable,
                          transactionItemsTable, documentsTable, serial>>
     IN /\ (r.op = "generateDocument" /\ (after.op = "idle" \/ after.pc # r.pc))
             => /\ r.pc = "selectTransaction" =>
                     IF \A t \in transactionsTable : t.id # id
                     THEN fails("TransactionNotFound")
                     ELSE after.pc = "selectItems"
                /\ r.pc = "selectItems" =>
                     IF \A it \in transactionItemsTable : it.transaction_id # id
                     THEN fails("NoItemsFound")
                     ELSE after.pc = "selectStoreProfile"
                /\ r.pc = "selectStoreProfile" =>
                     IF storeProfilesTable = {}
                     THEN fails("StoreProfileNotFound")
                     ELSE after.pc = "insertDocument"
        /\ documentsTable' \ documentsTable # {}
             => (r.op = "generateDocument"
                   /\ r.pc \in {"insertDocument", "updateDocument"})]_vars

\* C19 witness: a call failed with 'no items found' for a transaction that
\* exists, while no store profile exists either
C19_Witness ==
  /\ last.op = "generateDocument"
  /\ last.result.kind = "NoItemsFound"
  /\ SelectById(transactionsTable, last.input.transaction_id) # {}
  /\ storeProfilesTable = {}
  /\ documentsTable = {}

\* C21: no two persisted document rows share their document_number, also
\* while several generateDocument calls are in flight.
C21_DocumentNumbersDistinct ==
  \A d1, d2 \in documentsTable :
    d1.id # d2.id => d1.document_number # d2.document_number

\* the document row is not the row a call in flight has inserted and not yet
\* updated
Settled(d) ==
  \A p \in DocumentProcs :
    ~ (requests[p].op = "generateDocument" /\ requests[p].pc = "updateDocument"
         /\ requests[p].id = d.id)

\* C22: a generateDocument call inserts exactly one document row, also when
\* the transaction already has a document of that type, and no step of a
\* generateDocument or updateTransaction call changes or removes a document
\* row an earlier generateDocument call has returned.
C22_EachCallAddsOneIndependentRow ==
  [][LET ids(table) == {d.id : d \in table}
         added == documentsTable' \ documentsTable
         inserting == {p \in DocumentProcs :
                         /\ requests[p].op = "generateDocument"
                         /\ requests[p].pc = "insertDocument"
                         /\ requests'[p].pc = "updateDocument"}
     IN /\ \A d \in documentsTable : Settled(d) => d \in documentsTable'
        /\ ids(documentsTable) \subseteq ids(documentsTable')
        /\ IF inserting # {}
           THEN /\ Cardinality(added) = 1
                /\ Cardinality(documentsTable') = Cardinality(documentsTable) + 1
                /\ \A d \in added : d.id \notin ids(documentsTable)
           ELSE ids(documentsTable') = ids(documentsTable)
        /\ \A p \in DocumentProcs :
             ( /\ requests[p].op = "generateDocument"
               /\ requests'[p].op = "idle"
               /\ last'.result.kind = "ok" )
               => Cardinality({d \in documentsTable' : d.id = last'.result.id}) = 1]_vars

\* C22 witness: a call has returned a second document of the same type for
\* the same transaction, after updateTransaction changed the transaction
C22_Witness ==
  /\ last.op = "generateDocument"
  /\ last.result.kind = "ok"
  /\ \E d1, d2 \in documentsTable :
       /\ d1.id # d2.id
       /\ d1.transaction_id = d2.transaction_id
       /\ d1.document_type = d2.document_type
       /\ Settled(d1) /\ Settled(d2)
       /\ d1.html_content.footer # d2.html_content.footer

\* the amounts the footer shows under a label, in cents
FooterAmounts(footer, label) ==
  {footer[i][2][2] * CentsPerUnit + footer[i][2][3] :
     i \in {k \in 1..Len(footer) : footer[k][1] = label}}

\* the footer has one row with the label, showing the amount
ShowsRow(footer, label, amount) ==
  /\ Cardinality({k \in 1..Len(footer) : footer[k][1] = label}) = 1
  /\ FooterAmounts(footer, label) = {amount}

\* C23: the footer of a generated document has a PPN, regional tax, PPh 22
\* and PPh 23 row exactly when that flag of the persisted transaction is true,
\* a stamp duty row exactly when stamp_duty_required is true, and always a
\* subtotal row and a total row showing the persisted subtotal and
\* total_amount.
C23_FooterShowsEnabledTaxes ==
  [][\A d \in documentsTable' \ documentsTable :
       LET t == RowOf(SelectById(transactionsTable, d.transaction_id))
           footer == d.html_content.footer
           row(label, shown, amount) ==
             IF shown THEN ShowsRow(footer, label, amount)
             ELSE FooterAmounts(footer, label) = {}
       IN /\ row("PPN (11%)", t.ppn_enabled, t.ppn_amount)
          /\ row("Regional Tax", t.regional_tax_enabled, t.regional_tax_amount)
          /\ row("PPh 22", t.pph22_enabled, t.pph22_amount)
          /\ row("PPh 23", t.pph23_enabled, t.pph23_amount)
          /\ row("Stamp Duty", t.stamp_duty_required, t.stamp_duty_amount)
          /\ ShowsRow(footer, "Subtotal", t.subtotal)
          /\ ShowsRow(footer, "TOTAL AMOUNT", t.total_amount)]_vars

\* C23 witness: a document of a transaction with PPh 23 and stamp duty but
\* without PPh 22 has been generated
C23_Witness ==
  /\ last.op = "generateDocument"
  /\ last.result.kind = "ok"
  /\ \E d \in documentsTable, t \in transactionsTable :
       /\ d.id = last.result.id
       /\ t.id = d.transaction_id
       /\ t.pph23_enabled /\ ~ t.pph22_enabled /\ ~ t.ppn_enabled
       /\ t.stamp_duty_required
       /\ Len(d.html_content.footer) = 4

\* C24: generateDocument creates a document row only for a transaction whose
\* status is confirmed or paid, never for a draft or cancelled one.
C24_DocumentsOnlyWhenConfirmedOrPaid ==
  [][\A d \in documentsTable' \ documentsTable :
       \A t \in transactionsTable :
         t.id = d.transaction_id => t.status \in {"confirmed", "paid"}]_vars

\* C25 as stated: deleteCatalogItem on an existing catalog entry removes it
\* and returns true whether or not transaction lines reference it, and leaves
\* the lines and their transactions unchanged.
C25_CatalogDeleteIndependent ==
  [][(last'.op = "deleteCatalogItem"
        /\ SelectById(catalogItemsTable, last'.input) # {})
       => /\ last'.result.kind = "ok"
          /\ SelectById(catalogItemsTable', last'.input) = {}
          /\ UNCHANGED <<transactionsTable, transactionItemsTable>>]_vars

\* C25 amended: deleteCatalogItem on an existing catalog entry that no
\* transaction line references removes it and returns true; on an entry that
\* a line references it fails and the entry stays; in both cases the lines and
\* the transactions are unchanged.
C25_CatalogDeleteUnlessReferenced ==
  [][(last'.op = "deleteCatalogItem"
        /\ SelectById(catalogItemsTable, last'.input) # {})
       => /\ IF \E it \in transactionItemsTable : it.catalog_item_id = last'.input
             THEN /\ last'.result.kind = "ForeignKeyViolation"
                  /\ UNCHANGED catalogItemsTable
             ELSE /\ last'.result.kind = "ok"
                  /\ catalogItemsTable' =
                       {c \in catalogItemsTable : c.id # last'.input}
          /\ UNCHANGED <<transactionsTable, transactionItemsTable>>]_vars

\* C25 witness: the delete of a catalog entry that lines reference was refused
C25_Witness ==
  /\ last.op = "deleteCatalogItem"
  /\ last.result.kind = "ForeignKeyViolation"
  /\ SelectById(catalogItemsTable, last.input) # {}
  /\ \E it \in transactionItemsTable : it.catalog_item_id = last.input

\* the subtotal, the tax flags and amounts, the stamp duty fields and the total
TaxFields(t) ==
  [f \in {"subtotal", "ppn_enabled", "ppn_amount", "regional_tax_enabled",
          "regional_tax_amount", "pph22_enabled", "pph22_amount", "pph23_enabled",
          "pph23_amount", "stamp_duty_required", "stamp_duty_amount",
          "total_amount"} |-> t[f]]

\* C26: an updateTransaction call that supplies none of the four tax flags
\* leaves the subtotal, the flags and amounts, the stamp duty fields and the
\* total unchanged and changes the supplied scalar fields only; no
\* updateTransaction call inserts, deletes or modifies a transaction line row.
C26_UpdateWithoutFlagsKeepsTaxes ==
  [][(last'.op = "updateTransaction") =>
       LET input == last'.input
       IN /\ transactionItemsTable' = transactionItemsTable
          /\ (\A f \in TaxFlags : ~ Given(input[f])) =>
               \A t \in transactionsTable :
                 IF t.id # input.id THEN t \in transactionsTable'
                 ELSE \E u \in transactionsTable' :
                        /\ u.id = t.id
                        /\ TaxFields(u) = TaxFields(t)
                        /\ u.transaction_number = t.transaction_number
                        /\ u.status = (IF Given(input.status)
                                       THEN ValueOf(input.status) ELSE t.status)
                        /\ u.customer_name = (IF Given(input.customer_name)
                                              THEN ValueOf(input.customer_name)
                                              ELSE t.customer_name)]_vars

\* C26 witness: an update that gave the status only has confirmed a
\* transaction whose regional tax still has the amount the creation computed
C26_Witness ==
  /\ last.op = "updateTransaction"
  /\ last.result.kind = "ok"
  /\ \A f \in TaxFlags : ~ Given(last.input[f])
  /\ Given(last.input.status)
  /\ \E t \in transactionsTable :
       /\ t.id = last.input.id
       /\ t.status = "confirmed"
       /\ t.regional_tax_enabled
       /\ t.regional_tax_amount =
            ToNumeric2(MulRate(DecOfCents(t.subtotal), CreateRegionalTaxRate))
       /\ t.regional_tax_amount > 0
       /\ \E it \in transactionItemsTable : it.transaction_id = t.id

\* C27: under any interleaving of deleteTransaction and updateTransaction
\* calls, a transaction row is removed only while its persisted status is
\* draft.
C27_DeletedOnlyWhileDraft ==
  [][\A t \in transactionsTable : After(t) = {} => t.status = "draft"]_vars

\* the flags, amounts, stamp duty fields and total of the row are what one
\* run of the tax computation yields for the row's flags and subtotal, with
\* the regional tax and PPh 22 rates and the stamp duty test of one handler
OneComputation(t, regionalTaxRate, pph22Rate, byTotal) ==
  LET subtotal == DecOfCents(t.subtotal)
      ppnAmount == TaxAmount(t.ppn_enabled, subtotal, PpnRate)
      regionalTaxAmount == TaxAmount(t.regional_tax_enabled, subtotal, regionalTaxRate)
      pph22Amount == TaxAmount(t.pph22_enabled, subtotal, pph22Rate)
      pph23Amount == TaxAmount(t.pph23_enabled, subtotal, Pph23Rate)
      before == CreateTotalBeforeStampDuty(subtotal, ppnAmount, regionalTaxAmount,
                                           pph22Amount, pph23Amount)
  IN /\ t.ppn_amount = ToNumeric2(ppnAmount)
     /\ t.regional_tax_amount = ToNumeric2(regionalTaxAmount)
     /\ t.pph22_amount = ToNumeric2(pph22Amount)
     /\ t.pph23_amount = ToNumeric2(pph23Amount)
     /\ t.stamp_duty_required = (IF byTotal THEN CreateStampDutyRequired(before)
                                 ELSE UpdateStampDutyRequired(subtotal))
     /\ t.stamp_duty_amount = StampDuty(t.stamp_duty_required)
     /\ t.total_amount = ToNumeric2(DecAdd(before, DecOfCents(t.stamp_duty_amount)))

\* C29: under any interleaving of updateTransaction calls on one transaction,
\* the stored flags, tax amounts, stamp duty fields and total come from one
\* call's computation: a flag is never stored with an amount or a total that
\* another call computed from other flags.
C29_TaxFieldsFromOneCall ==
  \A t \in transactionsTable :
    \/ OneComputation(t, CreateRegionalTaxRate, CreatePph22Rate, TRUE)
    \/ OneComputation(t, UpdateRegionalTaxRate, UpdatePph22Rate, FALSE)

\* C29 witness: a call that enables PPh 23 is about to write what it computed
\* from a row that had no regional tax, over a row on which another call has
\* enabled the regional tax since
C29_Witness ==
  \E p \in UpdateProcs, t \in transactionsTable :
    /\ requests[p].op = "updateTransaction"
    /\ requests[p].pc = "update"
    /\ requests[p].input.id = t.id
    /\ Given(requests[p].input.pph23_enabled)
    /\ ~ requests[p].seen.existing.regional_tax_enabled
    /\ t.regional_tax_enabled
    /\ t.regional_tax_amount > 0

\* C28: every transaction line's catalog_item_id refers to an existing
\* catalog entry under every interleaving of createTransaction,
\* deleteCatalogItem and deleteTransaction, so the join of the lines with the
\* catalog drops no persisted line.
C28_LinesReferenceCatalog ==
  /\ \A it \in transactionItemsTable :
       \E c \in catalogItemsTable : c.id = it.catalog_item_id
  /\ \A t \in transactionsTable :
       Cardinality(JoinedItemsOf(t.id)) =
         Cardinality({it \in transactionItemsTable : it.transaction_id = t.id})

\* C28 witness: deleteCatalogItem was refused between the two line inserts of
\* a createTransaction call
C28_Witness ==
  /\ last.op = "deleteCatalogItem"
  /\ last.result.kind = "ForeignKeyViolation"
  /\ requests["createTransaction"].op = "createTransaction"
  /\ requests["createTransaction"].pc = "insertItem"
  /\ requests["createTransaction"].i = 2
  /\ \E it \in transactionItemsTable :
       it.transaction_id = requests["createTransaction"].id

\* C30: for the same line items and tax flags, the subtotal, the four tax
\* amounts, the stamp duty and the grand total the TransactionForm previews
\* equal, to the cent, the values createTransaction persists.
C30_PreviewEqualsPersisted ==
  [][Returned("createTransaction") =>
       LET input == last'.input
           taxes == calculateTaxes(input.items, input)
       IN \A t \in SelectById(transactionsTable', last'.result.id) :
            /\ t.subtotal = ToNumeric2(calculateSubtotal(input.items))
            /\ t.ppn_amount = ToNumeric2(taxes.ppn)
            /\ t.regional_tax_amount = ToNumeric2(taxes.regionalTax)
            /\ t.pph22_amount = ToNumeric2(taxes.pph22)
            /\ t.pph23_amount = ToNumeric2(taxes.pph23)
            /\ t.stamp_duty_amount = calculateStampDuty(input.items, input)
            /\ t.total_amount = ToNumeric2(calculateTotal(input.items, input))]_vars

====
